---- MODULE Spec2Model ----
(***************************************************************************)
(* HealNow backend: the tooth-shade analysis pipeline.                     *)
(*                                                                         *)
(*   analysis.service  validateAnalysisRequest, parseAnalysisResponse,     *)
(*                     initializeOpenAIClient, processToothAnalysis,       *)
(*                     createAnalysisRecord                                *)
(*   analysis.controller  analyzeToothShade                                *)
(*   errorHandler middleware                                               *)
(*   auth.controller   signup, login (with auth.service's                  *)
(*                     validateSignupData and the user model)              *)
(*                                                                         *)
(* JavaScript values are modelled as tagged records [t, s, items]; a JSON  *)
(* text is a sequence of tokens, produced by Stringify and read back by    *)
(* JSONParse (a recursive-descent parser), so that parsing is computed and *)
(* never assumed to be the identity.                                       *)
(***************************************************************************)
EXTENDS Integers, Sequences, FiniteSets, TLC

VARIABLES
  reqInput,     \* RequestSpec: the argument of validateAnalysisRequest
  twin,         \* RequestSpec: reqInput with other images (or itself)
  reqPc,        \* RequestSpec: ready, threw, validated, prompted, recorded
  valResult,    \* RequestSpec: what validateAnalysisRequest returned
  prompt,       \* RequestSpec: createAnalysisPrompt(reqInput)
  promptAgain,  \* RequestSpec: createAnalysisPrompt(twin), a later call
  analysis,     \* RequestSpec: the recommendation given to createAnalysisRecord
  record,       \* RequestSpec: what createAnalysisRecord returned
  payload,      \* ParseSpec: the value the model reply was written from
  wrapped,      \* ParseSpec: is it nested under final_recommendation
  rawText,  \* ParseSpec: the reply text handed to parseAnalysisResponse
  parsePc,      \* ParseSpec: "ready" before the call, "done" after it
  parseOut,     \* ParseSpec: what parseAnalysisResponse returned or threw
  apiKey,       \* process.env.OPENROUTER_API_KEY ("" when it is not set)
  openaiClient, \* the module-level client handle: NoClient or a handle
  constructed,  \* how many times new OpenAI(...) ran in this process
  handle,       \* per request: the handle initializeOpenAIClient returned
  pc,           \* per request: idle, awaiting, settled, thrown, responded
  body,         \* per request: req.body
  svcResult,    \* per request: how the processToothAnalysis promise settled
  thrown,       \* per request: the error that left analyzeToothShade
  response,     \* per request: the response sent to the client
  raised,       \* per request: the ApiErrors constructed, in order
  initCalls,    \* per request: calls of initializeOpenAIClient
  extCalls,     \* per request: chat.completions.create calls issued
  parseCalls,   \* per request: calls of parseAnalysisResponse
  reply,        \* per request: how the external call settled
  users,        \* AuthSpec: the users collection, in insertion order
  authKind,     \* AuthSpec, per request: none, signup or login
  authPc,       \* AuthSpec, per request: idle, findOne, save, compare, responded
  authBody,     \* AuthSpec, per request: req.body
  lookup,       \* AuthSpec, per request: the _id findOne gave (0: no user)
  authResponse, \* AuthSpec, per request: the response sent
  cookie        \* AuthSpec, per request: the token cookie set on the response

reqVars == <<reqInput, twin, reqPc, valResult, prompt, promptAgain,
             analysis, record>>
parseVars == <<payload, wrapped, rawText, parsePc, parseOut>>
pipeVars == <<apiKey, openaiClient, constructed, handle, pc, body, svcResult, thrown, response,
              raised, initCalls, extCalls, parseCalls, reply>>
authVars == <<users, authKind, authPc, authBody, lookup, authResponse, cookie>>
vars == <<reqInput, twin, reqPc, valResult, prompt, promptAgain, analysis,
          record,
          payload, wrapped, rawText, parsePc, parseOut, apiKey, openaiClient,
          constructed, handle,
          pc, body, svcResult, thrown, response, raised, initCalls, extCalls,
          parseCalls, reply,
          users, authKind, authPc, authBody, lookup, authResponse, cookie>>

(***************************************************************************)
(* Bounds of the model.                                                    *)
(***************************************************************************)
\* longest zonal_analysis array among the model replies of ParseSpec
MaxZones == 2
\* number of analysis requests in flight together
NumRequests == 2

(***************************************************************************)
(* JavaScript values.                                                      *)
(*   t     : "undefined" | "null" | "bool" | "num" | "str" | "arr" | "obj" *)
(*   s     : the text of a string, number or boolean ("" otherwise)        *)
(*   items : the elements of an array, or the [k, v] entries of an object  *)
(***************************************************************************)
Undef == [t |-> "undefined", s |-> "", items |-> <<>>]
JNull == [t |-> "null", s |-> "", items |-> <<>>]
JBool(b) == [t |-> "bool", s |-> b, items |-> <<>>]
JNum(n) == [t |-> "num", s |-> n, items |-> <<>>]
JStr(x) == [t |-> "str", s |-> x, items |-> <<>>]
JArr(xs) == [t |-> "arr", s |-> "", items |-> xs]
JObj(es) == [t |-> "obj", s |-> "", items |-> es]
Entry(key, val) == [k |-> key, v |-> val]

\* an object literal: a property whose value is undefined is left out
MkObj(es) ==
  LET Present(e) == e.v.t # "undefined" IN JObj(SelectSeq(es, Present))

\* ToBoolean: the falsy values are undefined, null, false, 0 and ""
Truthy(v) ==
  CASE v.t = "undefined" -> FALSE
    [] v.t = "null" -> FALSE
    [] v.t = "bool" -> v.s = "true"
    [] v.t = "num" -> v.s # "0"
    [] v.t = "str" -> v.s # ""
    [] OTHER -> TRUE

\* the typeof operator
TypeOf(v) ==
  CASE v.t = "undefined" -> "undefined"
    [] v.t = "bool" -> "boolean"
    [] v.t = "num" -> "number"
    [] v.t = "str" -> "string"
    [] OTHER -> "object"

IsArray(v) == v.t = "arr"

\* reading a property of null or undefined throws a TypeError
ReadThrows(v) == v.t \in {"undefined", "null"}

\* v.key for a value whose properties can be read: the last entry of that
\* key of an object, undefined for a key the value does not have
GetProp(v, key) ==
  IF v.t = "obj" /\ \E i \in 1..Len(v.items) : v.items[i].k = key
  THEN LET last == CHOOSE i \in 1..Len(v.items) :
                     /\ v.items[i].k = key
                     /\ \A j \in (i + 1)..Len(v.items) : v.items[j].k # key
       IN v.items[last].v
  ELSE Undef

\* obj[key] = val on the entries of an object: a repeated key keeps its
\* place and takes the later value
PutEntry(es, key, val) ==
  IF \E i \in 1..Len(es) : es[i].k = key
  THEN [i \in 1..Len(es) |-> IF es[i].k = key THEN Entry(key, val) ELSE es[i]]
  ELSE Append(es, Entry(key, val))

(***************************************************************************)
(* JSON texts as token sequences.                                          *)
(*   "p" punctuation, "s" string literal, "n" number literal, "w" a bare   *)
(*   word (null, true, false, or anything else, which is no JSON)          *)
(***************************************************************************)
Tok(kind, text) == [k |-> kind, v |-> text]
LBrace == Tok("p", "{")
RBrace == Tok("p", "}")
LBrack == Tok("p", "[")
RBrack == Tok("p", "]")
Colon == Tok("p", ":")
Comma == Tok("p", ",")

RECURSIVE Stringify(_), StringifyElements(_, _), StringifyMembers(_, _)
\* JSON.stringify of a value holding no undefined
Stringify(v) ==
  CASE v.t = "null" -> <<Tok("w", "null")>>
    [] v.t = "bool" -> <<Tok("w", v.s)>>
    [] v.t = "num" -> <<Tok("n", v.s)>>
    [] v.t = "str" -> <<Tok("s", v.s)>>
    [] v.t = "arr" -> <<LBrack>> \o StringifyElements(v.items, 1) \o <<RBrack>>
    [] v.t = "obj" -> <<LBrace>> \o StringifyMembers(v.items, 1) \o <<RBrace>>
    [] OTHER -> <<>>
StringifyElements(xs, i) ==
  IF i > Len(xs) THEN <<>>
  ELSE (IF i > 1 THEN <<Comma>> ELSE <<>>)
         \o Stringify(xs[i]) \o StringifyElements(xs, i + 1)
StringifyMembers(es, i) ==
  IF i > Len(es) THEN <<>>
  ELSE (IF i > 1 THEN <<Comma>> ELSE <<>>)
         \o <<Tok("s", es[i].k), Colon>> \o Stringify(es[i].v)
         \o StringifyMembers(es, i + 1)

\* result of parsing one value: ok, the value, the index of the next token
PFail == [ok |-> FALSE, val |-> Undef, next |-> 0]
POk(v, n) == [ok |-> TRUE, val |-> v, next |-> n]
TokAt(toks, i) == IF i \in 1..Len(toks) THEN toks[i] ELSE Tok("eof", "")

RECURSIVE ParseValue(_, _), ParseElements(_, _, _), ParseMembers(_, _, _)
ParseValue(toks, i) ==
  LET tk == TokAt(toks, i) IN
  CASE tk.k = "s" -> POk(JStr(tk.v), i + 1)
    [] tk.k = "n" -> POk(JNum(tk.v), i + 1)
    [] tk.k = "w" /\ tk.v = "null" -> POk(JNull, i + 1)
    [] tk.k = "w" /\ tk.v \in {"true", "false"} -> POk(JBool(tk.v), i + 1)
    [] tk = LBrack ->
         IF TokAt(toks, i + 1) = RBrack THEN POk(JArr(<<>>), i + 2)
         ELSE ParseElements(toks, i + 1, <<>>)
    [] tk = LBrace ->
         IF TokAt(toks, i + 1) = RBrace THEN POk(JObj(<<>>), i + 2)
         ELSE ParseMembers(toks, i + 1, <<>>)
    [] OTHER -> PFail
\* the elements of an array from token i on, acc being those already read
ParseElements(toks, i, acc) ==
  LET r == ParseValue(toks, i) IN
  IF ~r.ok THEN PFail
  ELSE LET sep == TokAt(toks, r.next) IN
       CASE sep = Comma -> ParseElements(toks, r.next + 1, Append(acc, r.val))
         [] sep = RBrack -> POk(JArr(Append(acc, r.val)), r.next + 1)
         [] OTHER -> PFail
\* the members of an object from token i on
ParseMembers(toks, i, acc) ==
  LET key == TokAt(toks, i) IN
  IF key.k # "s" \/ TokAt(toks, i + 1) # Colon THEN PFail
  ELSE LET r == ParseValue(toks, i + 2) IN
       IF ~r.ok THEN PFail
       ELSE LET sep == TokAt(toks, r.next) IN
            CASE sep = Comma ->
                   ParseMembers(toks, r.next + 1, PutEntry(acc, key.v, r.val))
              [] sep = RBrace ->
                   POk(JObj(PutEntry(acc, key.v, r.val)), r.next + 1)
              [] OTHER -> PFail

\* JSON.parse: the value of the whole text, or a SyntaxError (ok = FALSE)
JSONParse(toks) ==
  LET r == ParseValue(toks, 1) IN
  IF r.ok /\ r.next = Len(toks) + 1 THEN [ok |-> TRUE, val |-> r.val]
  ELSE [ok |-> FALSE, val |-> Undef]

(***************************************************************************)
(* ApiError(statusCode, message, errors)                                   *)
(***************************************************************************)
\* Errors are records: api says the value is an ApiError; markers is the set
\* of the substrings probed with String.includes that the message holds;
\* code and name are the properties of those names ("" when absent).
MarkersOf(msg) ==
  CASE msg = "Failed to parse analysis response: Invalid JSON format" -> {"JSON"}
    [] msg = "Analysis service request timeout" -> {"timeout"}
    [] msg = "Analysis service request timeout. Please try again" -> {"timeout"}
    [] OTHER -> {}
ApiError(status, msg, errs) ==
  [api |-> TRUE, statusCode |-> status, message |-> msg, errors |-> errs,
   markers |-> MarkersOf(msg), code |-> "", name |-> "Error"]
\* an error that is no ApiError: thrown by the client library or the runtime
RawError(nm, msg, marks, cd) ==
  [api |-> FALSE, statusCode |-> 0, message |-> msg, errors |-> <<>>,
   markers |-> marks, code |-> cd, name |-> nm]
NoError == RawError("", "", {}, "")
\* error.message.includes(probe)
Includes(error, probe) == probe \in error.markers

Returned(v) == [ok |-> TRUE, value |-> v, error |-> NoError]
Thrown(e) == [ok |-> FALSE, value |-> Undef, error |-> e]

(***************************************************************************)
(* parseAnalysisResponse                                                   *)
(***************************************************************************)
MsgInvalidJson == "Failed to parse analysis response: Invalid JSON format"
MsgInvalidFormat == "Invalid response format from analysis service"
MsgToothType == "Missing or invalid estimated_tooth_type in analysis response"
MsgZonal == "Missing or invalid zonal_analysis in analysis response"
MsgGeneral == "Missing or invalid general_suggestion in analysis response"
MsgLayered == "Missing or invalid layered_recommendation in analysis response"
MsgZoneStructure == "Invalid zonal analysis structure in response"
MsgLayeredStructure == "Invalid layered recommendation structure in response"

\* mutant of FinalRecOf: the wrapper key is not looked under
M_FinalRecOf(parsed) == parsed

\* const finalRec = parsed.final_recommendation || parsed
FinalRecOf(parsed) ==
  IF Truthy(GetProp(parsed, "final_recommendation"))
  THEN GetProp(parsed, "final_recommendation")
  ELSE parsed

\* mutant of ZoneLoop: only the first element is looked at
M_ZoneLoop(zs) ==
  IF ReadThrows(zs[1]) THEN "typeerror"
  ELSE IF \/ ~Truthy(GetProp(zs[1], "zone"))
          \/ ~Truthy(GetProp(zs[1], "vita_classical"))
          \/ ~Truthy(GetProp(zs[1], "vita_3d_master"))
          \/ ~Truthy(GetProp(zs[1], "notes"))
    THEN "invalid"
  ELSE "ok"

\* the loop over finalRec.zonal_analysis: "ok", "invalid" (a falsy field is
\* found first) or "typeerror" (a null element is reached first)
ZoneLoop(zs) ==
  LET Bad(z) == \/ ReadThrows(z)
                \/ ~Truthy(GetProp(z, "zone"))
                \/ ~Truthy(GetProp(z, "vita_classical"))
                \/ ~Truthy(GetProp(z, "vita_3d_master"))
                \/ ~Truthy(GetProp(z, "notes"))
  IN IF \A i \in 1..Len(zs) : ~Bad(zs[i]) THEN "ok"
     ELSE LET first == CHOOSE i \in 1..Len(zs) :
                         Bad(zs[i]) /\ \A j \in 1..(i - 1) : ~Bad(zs[j])
          IN IF ReadThrows(zs[first]) THEN "typeerror" ELSE "invalid"

\* mutant of RequiredFieldError: general_suggestion is checked before
\* zonal_analysis
M_RequiredFieldError_Swapped(finalRec) ==
  LET tooth == GetProp(finalRec, "estimated_tooth_type")
      zonal == GetProp(finalRec, "zonal_analysis")
      general == GetProp(finalRec, "general_suggestion")
      layered == GetProp(finalRec, "layered_recommendation")
  IN
  IF ~Truthy(tooth) \/ TypeOf(tooth) # "string" THEN MsgToothType
  ELSE IF ~Truthy(general) \/ TypeOf(general) # "string" THEN MsgGeneral
  ELSE IF ~IsArray(zonal) \/ Len(zonal.items) = 0 THEN MsgZonal
  ELSE IF ~Truthy(layered) \/ TypeOf(layered) # "object" THEN MsgLayered
  ELSE ""

\* mutant of RequiredFieldError: an empty zonal_analysis array is let through
M_RequiredFieldError_EmptyOk(finalRec) ==
  LET tooth == GetProp(finalRec, "estimated_tooth_type")
      zonal == GetProp(finalRec, "zonal_analysis")
      general == GetProp(finalRec, "general_suggestion")
      layered == GetProp(finalRec, "layered_recommendation")
  IN
  IF ~Truthy(tooth) \/ TypeOf(tooth) # "string" THEN MsgToothType
  ELSE IF ~IsArray(zonal) THEN MsgZonal
  ELSE IF ~Truthy(general) \/ TypeOf(general) # "string" THEN MsgGeneral
  ELSE IF ~Truthy(layered) \/ TypeOf(layered) # "object" THEN MsgLayered
  ELSE ""

\* the four checks of the required fields, in their order: the message of
\* the first one that fails, "" when they all pass
RequiredFieldError(finalRec) ==
  LET tooth == GetProp(finalRec, "estimated_tooth_type")
      zonal == GetProp(finalRec, "zonal_analysis")
      general == GetProp(finalRec, "general_suggestion")
      layered == GetProp(finalRec, "layered_recommendation")
  IN
  IF ~Truthy(tooth) \/ TypeOf(tooth) # "string" THEN MsgToothType
  ELSE IF ~IsArray(zonal) \/ Len(zonal.items) = 0 THEN MsgZonal
  ELSE IF ~Truthy(general) \/ TypeOf(general) # "string" THEN MsgGeneral
  ELSE IF ~Truthy(layered) \/ TypeOf(layered) # "object" THEN MsgLayered
  ELSE ""

\* the try block of parseAnalysisResponse: what it returns or throws
ParseTry(rawResponse) ==
  LET p == JSONParse(rawResponse)
      parsed == p.val
      finalRec == FinalRecOf(parsed)
      zonal == GetProp(finalRec, "zonal_analysis")
      layered == GetProp(finalRec, "layered_recommendation")
  IN
  IF ~p.ok
    THEN Thrown(RawError("SyntaxError", "Unexpected token in JSON", {"JSON"}, ""))
  ELSE IF ~Truthy(parsed) \/ TypeOf(parsed) # "object"
    THEN Thrown(ApiError(500, MsgInvalidFormat, <<>>))
  ELSE IF RequiredFieldError(finalRec) # ""
    THEN Thrown(ApiError(500, RequiredFieldError(finalRec), <<>>))
  ELSE IF ZoneLoop(zonal.items) = "invalid"
    THEN Thrown(ApiError(500, MsgZoneStructure, <<>>))
  ELSE IF ZoneLoop(zonal.items) = "typeerror"
    THEN Thrown(RawError("TypeError", "Cannot read properties of null", {}, ""))
  ELSE IF \/ ~Truthy(GetProp(layered, "dentin_layer"))
          \/ ~Truthy(GetProp(layered, "enamel_layer"))
          \/ ~Truthy(GetProp(layered, "cervical_tint"))
    THEN Thrown(ApiError(500, MsgLayeredStructure, <<>>))
  ELSE Returned(finalRec)

\* the catch block of parseAnalysisResponse
ParserCatch(error) ==
  IF error.api THEN error ELSE ApiError(500, MsgInvalidJson, <<>>)

parseAnalysisResponse(rawResponse) ==
  LET out == ParseTry(rawResponse) IN
  IF out.ok THEN out ELSE Thrown(ParserCatch(out.error))

(***************************************************************************)
(* Request fields. A field value is [t, chars]: t is the JavaScript type   *)
(* tag, chars the characters of a string or the digits of a number.        *)
(***************************************************************************)
FUndef == [t |-> "undefined", chars |-> <<>>]
FNull == [t |-> "null", chars |-> <<>>]
FNum(ds) == [t |-> "num", chars |-> ds]
FStr(cs) == [t |-> "str", chars |-> cs]
FBool(b) == [t |-> "bool", chars |-> IF b THEN <<"true">> ELSE <<"false">>]
\* an object or array value (its contents play no part)
FObj == [t |-> "obj", chars |-> <<>>]
\* the object has no such property
FAbsent == [t |-> "absent", chars |-> <<>>]

FTruthy(v) ==
  CASE v.t = "str" -> v.chars # <<>>
    [] v.t = "num" -> v.chars # <<"0">>
    [] v.t = "bool" -> v.chars = <<"true">>
    [] v.t = "obj" -> TRUE
    [] OTHER -> FALSE

\* requestData.f: reading a property the value does not have gives undefined
GetField(requestData, f) ==
  IF requestData[f].t = "absent" THEN FUndef ELSE requestData[f]
\* reading a property of undefined or null throws a TypeError
FieldReadThrows(requestData) == requestData.t \in {"undefined", "null"}

Whitespace == {" ", "\t", "\n"}
Digits == {"0", "1", "2", "3", "4", "5", "6", "7", "8", "9"}

\* String.prototype.trim
Trim(cs) ==
  LET solid == {i \in 1..Len(cs) : cs[i] \notin Whitespace} IN
  IF solid = {} THEN <<>>
  ELSE SubSeq(cs, CHOOSE i \in solid : \A j \in solid : i <= j,
                  CHOOSE i \in solid : \A j \in solid : j <= i)

\* Configuration constants
MAX_NAME_LENGTH == 100
MIN_NAME_LENGTH == 2
MIN_BASE64_LENGTH == 100

\* PHONE_REGEX = /^[\+]?[1-9][\d]{0,15}$/
PHONE_REGEX(cs) ==
  LET rest == IF cs # <<>> /\ cs[1] = "+" THEN Tail(cs) ELSE cs IN
  /\ Len(rest) \in 1..16
  /\ rest[1] \in Digits \ {"0"}
  /\ \A i \in 2..Len(rest) : rest[i] \in Digits

MimeTypes ==
  { <<"j", "p", "e", "g">>, <<"j", "p", "g">>, <<"p", "n", "g">>,
    <<"w", "e", "b", "p">> }
DataPrefix(mime) ==
  <<"d", "a", "t", "a", ":", "i", "m", "a", "g", "e", "/">> \o mime
    \o <<";", "b", "a", "s", "e", "6", "4", ",">>
IsPrefix(pre, cs) == Len(pre) <= Len(cs) /\ SubSeq(cs, 1, Len(pre)) = pre
\* DATA_URI_REGEX = /^data:image\/(jpeg|jpg|png|webp);base64,/
DATA_URI_REGEX(cs) == \E mime \in MimeTypes : IsPrefix(DataPrefix(mime), cs)

\* imageData.split(',')[1]: the text between the first comma and the next
\* one (or the end); undefined when there is no comma
SplitSecond(cs) ==
  LET commas == {i \in 1..Len(cs) : cs[i] = ","} IN
  IF commas = {} THEN [defined |-> FALSE, chars |-> <<>>]
  ELSE LET c1 == CHOOSE i \in commas : \A j \in commas : i <= j
           later == {i \in commas : i > c1}
           c2 == IF later = {} THEN Len(cs) + 1
                 ELSE CHOOSE i \in later : \A j \in later : i <= j
       IN [defined |-> TRUE, chars |-> SubSeq(cs, c1 + 1, c2 - 1)]

\* mutant of validateDentistName: the lengths are taken before trimming
M_validateDentistName_Untrimmed(name) ==
  IF ~FTruthy(name) \/ name.t # "str" THEN <<"Dentist name is required">>
  ELSE (IF Len(name.chars) < MIN_NAME_LENGTH
        THEN <<"Dentist name must be at least 2 characters long">> ELSE <<>>)
       \o (IF Len(name.chars) > MAX_NAME_LENGTH
           THEN <<"Dentist name must not exceed 100 characters">> ELSE <<>>)

\* mutant of validateDentistName: a value of another type gets a message of
\* its own
M_validateDentistName_TypeMessage(name) ==
  IF name.t \notin {"undefined", "null", "str"}
  THEN <<"Dentist name must be a string">>
  ELSE IF ~FTruthy(name) THEN <<"Dentist name is required">>
  ELSE LET trimmedName == Trim(name.chars) IN
       (IF Len(trimmedName) < MIN_NAME_LENGTH
        THEN <<"Dentist name must be at least 2 characters long">> ELSE <<>>)
       \o (IF Len(trimmedName) > MAX_NAME_LENGTH
           THEN <<"Dentist name must not exceed 100 characters">> ELSE <<>>)

validateDentistName(name) ==
  IF ~FTruthy(name) \/ name.t # "str" THEN <<"Dentist name is required">>
  ELSE LET trimmedName == Trim(name.chars) IN
       (IF Len(trimmedName) < MIN_NAME_LENGTH
        THEN <<"Dentist name must be at least 2 characters long">> ELSE <<>>)
       \o (IF Len(trimmedName) > MAX_NAME_LENGTH
           THEN <<"Dentist name must not exceed 100 characters">> ELSE <<>>)

validateMobileNumber(mobile) ==
  IF ~FTruthy(mobile) \/ mobile.t # "str"
  THEN <<"Dentist mobile number is required">>
  ELSE IF ~PHONE_REGEX(Trim(mobile.chars))
  THEN <<"Please provide a valid mobile number">>
  ELSE <<>>

validatePatientName(name) ==
  IF name.t \in {"undefined", "null"} THEN <<>>
  ELSE IF name.t # "str" THEN <<"Patient name must be a string">>
  ELSE IF Len(Trim(name.chars)) > MAX_NAME_LENGTH
  THEN <<"Patient name must not exceed 100 characters">>
  ELSE <<>>

\* mutant of validateImageDataURI: the payload is not looked at
M_validateImageDataURI_NoPayloadCheck(imageData, fieldName) ==
  IF ~FTruthy(imageData) \/ imageData.t # "str"
  THEN <<fieldName \o " is required">>
  ELSE IF ~DATA_URI_REGEX(imageData.chars)
  THEN <<fieldName \o " must be a valid image data URI (jpeg, jpg, png, or webp)">>
  ELSE <<>>

validateImageDataURI(imageData, fieldName) ==
  IF ~FTruthy(imageData) \/ imageData.t # "str"
  THEN <<fieldName \o " is required">>
  ELSE LET base64Data == SplitSecond(imageData.chars) IN
       (IF ~DATA_URI_REGEX(imageData.chars)
        THEN <<fieldName \o " must be a valid image data URI (jpeg, jpg, png, or webp)">>
        ELSE <<>>)
       \o (IF \/ ~base64Data.defined
              \/ base64Data.chars = <<>>
              \/ Len(base64Data.chars) < MIN_BASE64_LENGTH
           THEN <<fieldName \o " appears to contain invalid or insufficient image data">>
           ELSE <<>>)

\* mutant of validateAnalysisRequest: the checks stop at the first field
\* that has an error
M_validateAnalysisRequest_FirstOnly(requestData) ==
  LET checks ==
        << validateDentistName(GetField(requestData, "dentistName")),
           validateMobileNumber(GetField(requestData, "dentistMobileNumber")),
           validatePatientName(GetField(requestData, "patientName")),
           validateImageDataURI(GetField(requestData, "toothImage1"), "toothImage1"),
           validateImageDataURI(GetField(requestData, "toothImage2"), "toothImage2") >>
      failing == {i \in 1..5 : checks[i] # <<>>}
      errors == IF failing = {} THEN <<>>
                ELSE checks[CHOOSE i \in failing : \A j \in failing : i <= j]
  IN [threw |-> FieldReadThrows(requestData),
      isValid |-> ~FieldReadThrows(requestData) /\ Len(errors) = 0,
      errors |-> IF FieldReadThrows(requestData) THEN <<>> ELSE errors]

\* threw: the first property read, requestData.dentistName, raised a
\* TypeError and nothing is returned
validateAnalysisRequest(requestData) ==
  IF FieldReadThrows(requestData)
  THEN [threw |-> TRUE, isValid |-> FALSE, errors |-> <<>>]
  ELSE
  LET errors ==
        validateDentistName(GetField(requestData, "dentistName"))
          \o validateMobileNumber(GetField(requestData, "dentistMobileNumber"))
          \o validatePatientName(GetField(requestData, "patientName"))
          \o validateImageDataURI(GetField(requestData, "toothImage1"), "toothImage1")
          \o validateImageDataURI(GetField(requestData, "toothImage2"), "toothImage2")
  IN [threw |-> FALSE, isValid |-> Len(errors) = 0, errors |-> errors]

(***************************************************************************)
(* createAnalysisRecord: now1 and suffix make the id, now2 is the date.    *)
(***************************************************************************)
\* A property the record does not have is FAbsent.
\* mutant of createAnalysisRecord: the names are echoed as received and the
\* two images change places
M_createAnalysisRecord(request, result, now1, suffix, now2) ==
  [ id |-> <<now1, suffix>>,
    dentistName |-> GetField(request, "dentistName"),
    dentistMobileNumber |-> GetField(request, "dentistMobileNumber"),
    toothImage1 |-> GetField(request, "toothImage2"),
    toothImage2 |-> GetField(request, "toothImage1"),
    date |-> now2,
    analysis |-> [final_recommendation |-> result],
    patientName |-> IF FTruthy(GetField(request, "patientName"))
                    THEN FStr(Trim(GetField(request, "patientName").chars))
                    ELSE FAbsent ]

createAnalysisRecord(request, result, now1, suffix, now2) ==
  [ id |-> <<now1, suffix>>,
    dentistName |-> FStr(Trim(GetField(request, "dentistName").chars)),
    dentistMobileNumber |->
      FStr(Trim(GetField(request, "dentistMobileNumber").chars)),
    toothImage1 |-> GetField(request, "toothImage1"),
    toothImage2 |-> GetField(request, "toothImage2"),
    date |-> now2,
    analysis |-> [final_recommendation |-> result],
    patientName |-> IF FTruthy(GetField(request, "patientName"))
                    THEN FStr(Trim(GetField(request, "patientName").chars))
                    ELSE FAbsent ]

(***************************************************************************)
(* createAnalysisPrompt: the prompt is a sequence of segments, each one a  *)
(* literal piece of the template or the characters of an interpolated      *)
(* value.                                                                  *)
(***************************************************************************)
Lit(text) == [lit |-> text, chars |-> <<>>]
Interpolated(v) == [lit |-> "", chars |-> v.chars]

\* mutant of createAnalysisPrompt: the first image is written into the text
M_createAnalysisPrompt(request) ==
  << Lit("You are a dental shade analysis expert. [...] Dentist Information:"),
     Lit("- Name: "), Interpolated(GetField(request, "dentistName")),
     Lit("- Mobile: "), Interpolated(GetField(request, "dentistMobileNumber")),
     Lit("- Image: "), Interpolated(GetField(request, "toothImage1")),
     Lit("Please analyze both tooth images [...] in the exact format specified above") >>

createAnalysisPrompt(request) ==
  << Lit("You are a dental shade analysis expert. [...] Dentist Information:"),
     Lit("- Name: "), Interpolated(GetField(request, "dentistName")),
     Lit("- Mobile: "), Interpolated(GetField(request, "dentistMobileNumber")) >>
  \o (IF FTruthy(GetField(request, "patientName"))
      THEN <<Lit("- Patient: "), Interpolated(GetField(request, "patientName"))>>
      ELSE <<Lit("")>>)
  \o << Lit("Please analyze both tooth images [...] in the exact format specified above") >>

(***************************************************************************)
(* The error classifiers: the catch blocks of processToothAnalysis and of  *)
(* analyzeToothShade, and the errorHandler middleware.                     *)
(***************************************************************************)
\* mutant of ServiceCatch: the rate-limit rule comes before the
\* authentication rule
M_ServiceCatch(error) ==
  IF error.api THEN error
  ELSE IF Includes(error, "429")
    THEN ApiError(429, "Analysis service rate limit exceeded", <<>>)
  ELSE IF Includes(error, "401") \/ Includes(error, "authentication")
    THEN ApiError(401, "Authentication failed with analysis service", <<>>)
  ELSE IF Includes(error, "timeout")
    THEN ApiError(408, "Analysis service request timeout", <<>>)
  ELSE ApiError(500, "Failed to process tooth analysis", <<>>)

\* catch (error) of processToothAnalysis; every error of the model is an
\* instance of Error
ServiceCatch(error) ==
  IF error.api THEN error
  ELSE IF Includes(error, "401") \/ Includes(error, "authentication")
    THEN ApiError(401, "Authentication failed with analysis service", <<>>)
  ELSE IF Includes(error, "429")
    THEN ApiError(429, "Analysis service rate limit exceeded", <<>>)
  ELSE IF Includes(error, "timeout")
    THEN ApiError(408, "Analysis service request timeout", <<>>)
  ELSE ApiError(500, "Failed to process tooth analysis", <<>>)

\* mutant of ControllerCatch: an ApiError is classified again instead of
\* being rethrown
M_ControllerCatch(error) ==
  IF error.message # "" /\ Includes(error, "401")
    THEN ApiError(401, "Authentication failed with analysis service", <<>>)
  ELSE IF error.message # "" /\ Includes(error, "429")
    THEN ApiError(429, "Analysis service rate limit exceeded. Please try again later", <<>>)
  ELSE IF error.message # "" /\ Includes(error, "timeout")
    THEN ApiError(408, "Analysis service request timeout. Please try again", <<>>)
  ELSE IF error.code \in {"ECONNREFUSED", "ENOTFOUND"}
    THEN ApiError(503, "Analysis service temporarily unavailable", <<>>)
  ELSE IF error.name = "SyntaxError" /\ Includes(error, "JSON")
    THEN ApiError(500, "Invalid response format from analysis service", <<>>)
  ELSE ApiError(500, "Failed to process tooth shade analysis", <<>>)

\* catch (error) of analyzeToothShade
ControllerCatch(error) ==
  IF error.api THEN error
  ELSE IF error.message # "" /\ Includes(error, "401")
    THEN ApiError(401, "Authentication failed with analysis service", <<>>)
  ELSE IF error.message # "" /\ Includes(error, "429")
    THEN ApiError(429, "Analysis service rate limit exceeded. Please try again later", <<>>)
  ELSE IF error.message # "" /\ Includes(error, "timeout")
    THEN ApiError(408, "Analysis service request timeout. Please try again", <<>>)
  ELSE IF error.code \in {"ECONNREFUSED", "ENOTFOUND"}
    THEN ApiError(503, "Analysis service temporarily unavailable", <<>>)
  ELSE IF error.name = "SyntaxError" /\ Includes(error, "JSON")
    THEN ApiError(500, "Invalid response format from analysis service", <<>>)
  ELSE ApiError(500, "Failed to process tooth shade analysis", <<>>)

\* new ApiResponse(statusCode, data, message, errors); data is <<>> for null
ApiResponse(status, data, msg, errs) ==
  [statusCode |-> status, data |-> data, message |-> msg,
   success |-> status < 400, errors |-> errs]
NoResponse == ApiResponse(0, <<>>, "", <<>>)

\* the errorHandler middleware, for a response whose headers are not sent
errorHandler(err) ==
  IF err.api THEN ApiResponse(err.statusCode, <<>>, err.message, err.errors)
  ELSE IF err.name = "ValidationError"
    THEN ApiResponse(400, <<>>, "Validation failed", err.errors)
  ELSE IF err.code = "11000"
    THEN ApiResponse(409, <<>>, "email already exists", <<>>)
  ELSE IF err.name = "JsonWebTokenError"
    THEN ApiResponse(401, <<>>, "Invalid token", <<>>)
  ELSE IF err.name = "TokenExpiredError"
    THEN ApiResponse(401, <<>>, "Token expired", <<>>)
  ELSE ApiResponse(IF err.statusCode # 0 THEN err.statusCode ELSE 500, <<>>,
                   IF err.message # "" THEN err.message
                   ELSE "Internal server error", <<>>)

(***************************************************************************)
(* Model replies: the texts parseAnalysisResponse is applied to.           *)
(***************************************************************************)
Zone(zone, classical, master, notes) ==
  MkObj(<<Entry("zone", zone), Entry("vita_classical", classical),
          Entry("vita_3d_master", master), Entry("notes", notes)>>)
Layered(dentin, enamel, tint) ==
  MkObj(<<Entry("dentin_layer", dentin), Entry("enamel_layer", enamel),
          Entry("cervical_tint", tint)>>)
Recommendation(tooth, zonal, general, layered) ==
  MkObj(<<Entry("estimated_tooth_type", tooth), Entry("zonal_analysis", zonal),
          Entry("general_suggestion", general),
          Entry("layered_recommendation", layered)>>)
Wrap(v) == MkObj(<<Entry("final_recommendation", v)>>)

ZoneNames == {"Cervical Third", "Middle Third", "Incisal Third"}

ToothVariants == {Undef, JStr(""), JStr("Canine"), JNum("5")}
ZoneVariants ==
  { Zone(JStr("Cervical Third"), JStr("A3"), JStr("3M2"), JStr("slightly darker")),
    Zone(JStr("Middle Third"), JStr("A2"), JStr("2M2"), JStr("uniform")),
    Zone(JStr("Gingival Third"), JStr("A3"), JStr("3M2"), JStr("slightly darker")),
    Zone(JStr("Middle Third"), JNum("3"), JStr("3M2"), JStr("slightly darker")),
    Zone(JStr("Middle Third"), JStr("A3"), Undef, JStr("slightly darker")),
    Zone(JStr("Incisal Third"), JStr("A3"), JStr("3M2"), JStr("")),
    JNull }
ZonalVariants ==
  {Undef, JStr("A3"), JObj(<<>>)}
    \cup {JArr(zs) : zs \in UNION {[1..n -> ZoneVariants] : n \in 0..MaxZones}}
GeneralVariants == {Undef, JStr("use A3 dentin"), JNum("7")}
LayeredVariants ==
  { Undef, JArr(<<>>),
    Layered(JStr("A3"), JStr("A1"), JStr("warm")),
    Layered(JStr("A3"), JStr("A1"), Undef),
    Layered(JNum("5"), JStr("A1"), JStr("warm")),
    Layered(JStr("A3"), JStr(""), JStr("warm")) }

\* replies that are JSON: recommendation-shaped objects and other documents
Payloads ==
  {Recommendation(t, z, g, l) :
     t \in ToothVariants, z \in ZonalVariants,
     g \in GeneralVariants, l \in LayeredVariants}
    \cup {JNull, JNum("5"), JStr("Canine"), JArr(<<>>)}

\* replies that are no JSON
JunkTexts ==
  { <<Tok("w", "not"), Tok("w", "json")>>,
    <<>>,
    <<LBrace, Tok("s", "estimated_tooth_type"), Colon>>,
    <<LBrace, Tok("s", "estimated_tooth_type"), Colon, Tok("s", "Canine"), Comma, RBrace>>,
    <<LBrack, Tok("n", "5"), RBrack, RBrack>> }

Requests == 1..NumRequests

\* let openaiClient: OpenAI | null = null; a handle is the ordinal of the
\* new OpenAI(...) that made it
NoClient == 0

\* the request-level functions are not being exercised
NoRequest ==
  [t |-> "obj", dentistName |-> FAbsent, dentistMobileNumber |-> FAbsent,
   patientName |-> FAbsent, toothImage1 |-> FAbsent, toothImage2 |-> FAbsent]
ReqIdle ==
  /\ reqInput = NoRequest
  /\ twin = NoRequest
  /\ reqPc = "off"
  /\ valResult = [threw |-> FALSE, isValid |-> FALSE, errors |-> <<>>]
  /\ prompt = <<>>
  /\ promptAgain = <<>>
  /\ analysis = Undef
  /\ record = <<>>

\* no signup or login request has been received
NoToken == [sub |-> 0, email |-> <<>>, role |-> <<>>]
AuthRequestsIdle ==
  /\ authKind = [a \in Requests |-> "none"]
  /\ authPc = [a \in Requests |-> "idle"]
  /\ authBody = [a \in Requests |-> <<>>]
  /\ lookup = [a \in Requests |-> 0]
  /\ authResponse = [a \in Requests |-> NoResponse]
  /\ cookie = [a \in Requests |-> NoToken]
AuthIdle ==
  /\ users = <<>>
  /\ AuthRequestsIdle

\* the pipeline before any request: no client yet, nothing received
PipeIdle ==
  /\ openaiClient = NoClient
  /\ constructed = 0
  /\ handle = [r \in Requests |-> NoClient]
  /\ pc = [r \in Requests |-> "idle"]
  /\ body = [r \in Requests |-> <<>>]
  /\ svcResult = [r \in Requests |-> Returned(Undef)]
  /\ thrown = [r \in Requests |-> NoError]
  /\ response = [r \in Requests |-> NoResponse]
  /\ raised = [r \in Requests |-> <<>>]
  /\ initCalls = [r \in Requests |-> 0]
  /\ extCalls = [r \in Requests |-> 0]
  /\ parseCalls = [r \in Requests |-> 0]
  /\ reply = [r \in Requests |-> <<>>]

ParseInit ==
  /\ apiKey = ""
  /\ PipeIdle
  /\ ReqIdle
  /\ AuthIdle
  /\ \/ /\ payload \in Payloads
        /\ wrapped \in BOOLEAN
        /\ rawText = Stringify(IF wrapped THEN Wrap(payload) ELSE payload)
     \/ /\ payload = Undef
        /\ wrapped = FALSE
        /\ rawText \in JunkTexts
  /\ parsePc = "ready"
  /\ parseOut = Returned(Undef)

ParseCall ==
  /\ parsePc = "ready"
  /\ parseOut' = parseAnalysisResponse(rawText)
  /\ parsePc' = "done"
  /\ UNCHANGED <<payload, wrapped, rawText>>
  /\ UNCHANGED pipeVars
  /\ UNCHANGED reqVars
  /\ UNCHANGED authVars

ParseNext == ParseCall
ParseSpec == ParseInit /\ [][ParseNext]_vars

(***************************************************************************)
(* The analysis pipeline: POST /api/analysis/analyze.                      *)
(***************************************************************************)
Rep(c, n) == [i \in 1..n |-> c]
Image(mime, n) == FStr(DataPrefix(mime) \o Rep("A", n))
AnalysisRequest(dentist, mobile, patient, image1, image2) ==
  [t |-> "obj", dentistName |-> dentist, dentistMobileNumber |-> mobile,
   patientName |-> patient, toothImage1 |-> image1, toothImage2 |-> image2]

DrLee == FStr(<<" ", "D", "r", ".", " ", "L", "e", "e">>)
Phone == FStr(<<"+", "1", "2", "3", "4", "5", "6", "7", "8", "9", "0">>)
Ann == FStr(<<"A", "n", "n", " ">>)

\* request bodies: a valid one, and two that validation refuses
Bodies ==
  { AnalysisRequest(DrLee, Phone, Ann, Image(<<"p", "n", "g">>, 100),
                    Image(<<"j", "p", "e", "g">>, 101)),
    AnalysisRequest(FStr(<<"D">>), Phone, FUndef, Image(<<"p", "n", "g">>, 100),
                    Image(<<"g", "i", "f">>, 99)),
    AnalysisRequest(FUndef, FUndef, FUndef, FUndef, FUndef) }

\* the content of a completion choice: a string (its text as tokens), null,
\* or missing
Content(txt) == [t |-> "str", text |-> txt]
ContentNull == [t |-> "null", text |-> <<>>]
ContentMissing == [t |-> "undefined", text |-> <<>>]
\* a completion: its choices, or no choices property at all
Completion(cs) == [kind |-> "resolved", hasChoices |-> TRUE, choices |-> cs,
                   error |-> NoError]
CompletionNoChoices == [kind |-> "resolved", hasChoices |-> FALSE,
                        choices |-> <<>>, error |-> NoError]
Rejection(e) == [kind |-> "rejected", hasChoices |-> FALSE, choices |-> <<>>,
                 error |-> e]

GoodZones ==
  JArr(<< Zone(JStr("Cervical Third"), JStr("A3"), JStr("3M2"), JStr("slightly darker")),
          Zone(JStr("Middle Third"), JStr("A2"), JStr("2M2"), JStr("uniform")) >>)
GoodLayers == Layered(JStr("A3"), JStr("A1"), JStr("warm"))
GoodRecommendation ==
  Recommendation(JStr("Canine"), GoodZones, JStr("use A3 dentin"), GoodLayers)

\* texts the model may answer with
ReplyTexts ==
  { Stringify(Wrap(GoodRecommendation)),
    Stringify(GoodRecommendation),
    <<Tok("w", "not"), Tok("w", "json")>>,
    Stringify(Wrap(Recommendation(JStr("Canine"), JArr(<<>>), Undef, GoodLayers))),
    Stringify(Recommendation(JStr("Canine"), GoodZones, JStr("use A3 dentin"),
                             Layered(JStr("A3"), JStr("A1"), Undef))),
    Stringify(Wrap(Recommendation(JStr("Canine"),
        JArr(<<Zone(JStr("Gingival Third"), JNum("3"), JStr("3M2"), JStr("dark"))>>),
        JStr("use A3 dentin"), Layered(JNum("5"), JStr("A1"), JStr("warm"))))) }

Completions ==
  {Completion(<<Content(txt)>>) : txt \in ReplyTexts}
    \cup { Completion(<<Content(<<>>)>>), Completion(<<ContentNull>>),
           Completion(<<ContentMissing>>), Completion(<<>>),
           CompletionNoChoices }

\* errors the client library may reject with
RawErrors ==
  { RawError("Error", "401 Unauthorized", {"401"}, ""),
    RawError("Error", "No authentication credentials", {"authentication"}, ""),
    RawError("Error", "429 Too Many Requests", {"429"}, ""),
    RawError("Error", "Request timeout", {"timeout"}, ""),
    RawError("Error", "429 after 401", {"401", "429"}, ""),
    RawError("Error", "timeout, status 429", {"429", "timeout"}, ""),
    RawError("Error", "authentication timeout", {"authentication", "timeout"}, ""),
    RawError("Error", "Connection error.", {}, ""),
    RawError("Error", "connect ECONNREFUSED", {}, "ECONNREFUSED"),
    RawError("Error", "getaddrinfo ENOTFOUND openrouter.ai", {}, "ENOTFOUND"),
    RawError("SyntaxError", "Unexpected token in JSON", {"JSON"}, "") }

\* readings of the clock (Date.now, new Date) and of the random id suffix
Instants == {1, 2}
Suffixes == {"k3x9"}

Init ==
  /\ payload = Undef
  /\ wrapped = FALSE
  /\ rawText = <<>>
  /\ parsePc = "off"
  /\ parseOut = Returned(Undef)
  /\ apiKey \in {"", "sk-or-v1"}
  /\ PipeIdle
  /\ ReqIdle
  /\ AuthIdle

\* mutant of ProceedsToService: the validation result is ignored
M_ProceedsToService(validation) == TRUE

\* if (!validation.isValid) throw ...: does the request go on to the service
ProceedsToService(validation) == validation.isValid

\* an error leaves analyzeToothShade: asyncHandler hands it to errorHandler
Fails(r, err, made) ==
  /\ thrown' = [thrown EXCEPT ![r] = err]
  /\ response' = [response EXCEPT ![r] = errorHandler(err)]
  /\ raised' = [raised EXCEPT ![r] = raised[r] \o made]
  /\ pc' = [pc EXCEPT ![r] = "responded"]

\* mutant of initializeOpenAIClient: the key is not looked at
M_initializeOpenAIClient_NoKeyCheck(current, key, made) ==
  IF current # NoClient
  THEN [threw |-> FALSE, openaiClient |-> current, made |-> made]
  ELSE [threw |-> FALSE, openaiClient |-> made + 1, made |-> made + 1]

\* mutant of initializeOpenAIClient: a client is made on every call
M_initializeOpenAIClient(current, key, made) ==
  IF key = "" THEN [threw |-> TRUE, openaiClient |-> current, made |-> made]
  ELSE [threw |-> FALSE, openaiClient |-> made + 1, made |-> made + 1]

\* initializeOpenAIClient, given the module variable, the environment's key
\* and the number of clients made so far: does it throw, and the module
\* variable (which is what it returns) and the number of clients afterwards
initializeOpenAIClient(current, key, made) ==
  IF current # NoClient
  THEN [threw |-> FALSE, openaiClient |-> current, made |-> made]
  ELSE IF key = ""
  THEN [threw |-> TRUE, openaiClient |-> current, made |-> made]
  ELSE [threw |-> FALSE, openaiClient |-> made + 1, made |-> made + 1]

\* analyzeToothShade up to its await: validation, then processToothAnalysis
\* up to its await (initializeOpenAIClient, the prompt, the call issued)
AnalyzeToothShade(r) ==
  /\ pc[r] = "idle"
  /\ \E analysisData \in Bodies :
       LET validation == validateAnalysisRequest(analysisData)
           typeError == RawError("TypeError",
                                 "Cannot read properties of undefined", {}, "")
           invalid == ApiError(400, "Validation failed", validation.errors)
           noKey == ApiError(500, "OpenRouter API key not configured", <<>>)
           init == initializeOpenAIClient(openaiClient, apiKey, constructed)
       IN /\ body' = [body EXCEPT ![r] = analysisData]
          /\ IF validation.threw
             THEN /\ Fails(r, typeError, <<>>)
                  /\ UNCHANGED <<openaiClient, constructed, handle, svcResult,
                                 initCalls, extCalls>>
             ELSE IF ~ProceedsToService(validation)
             THEN /\ Fails(r, invalid, <<invalid>>)
                  /\ UNCHANGED <<openaiClient, constructed, handle, svcResult,
                                 initCalls, extCalls>>
             ELSE /\ initCalls' = [initCalls EXCEPT ![r] = @ + 1]
                  /\ openaiClient' = init.openaiClient
                  /\ constructed' = init.made
                  /\ IF init.threw
                     THEN /\ pc' = [pc EXCEPT ![r] = "settled"]
                          /\ svcResult' = [svcResult EXCEPT
                                             ![r] = Thrown(ServiceCatch(noKey))]
                          /\ raised' = [raised EXCEPT ![r] = @ \o <<noKey>>]
                          /\ UNCHANGED <<handle, extCalls>>
                     ELSE /\ pc' = [pc EXCEPT ![r] = "awaiting"]
                          /\ handle' = [handle EXCEPT ![r] = init.openaiClient]
                          /\ extCalls' = [extCalls EXCEPT ![r] = @ + 1]
                          /\ UNCHANGED <<svcResult, raised>>
                  /\ UNCHANGED <<thrown, response>>
  /\ UNCHANGED <<apiKey, reply, parseCalls>>
  /\ UNCHANGED parseVars
  /\ UNCHANGED reqVars
  /\ UNCHANGED authVars

\* response.choices[0]?.message?.content, for a response that has choices
FirstContent(completion) ==
  IF Len(completion.choices) = 0 THEN ContentMissing
  ELSE completion.choices[1]

\* mutant of AfterCompletion: the content is handed to the parser whatever
\* it is
M_AfterCompletion(completion) ==
  IF ~completion.hasChoices
  THEN [parsed |-> FALSE,
        out |-> Thrown(RawError("TypeError",
                                "Cannot read properties of undefined", {}, ""))]
  ELSE [parsed |-> TRUE,
        out |-> parseAnalysisResponse(FirstContent(completion).text)]

\* the rest of the try block of processToothAnalysis once the call resolved:
\* was parseAnalysisResponse called, and what the block returns or throws,
\* before its catch
AfterCompletion(completion) ==
  IF ~completion.hasChoices
  THEN [parsed |-> FALSE,
        out |-> Thrown(RawError("TypeError",
                                "Cannot read properties of undefined", {}, ""))]
  ELSE LET content == FirstContent(completion) IN
       IF content.t # "str" \/ content.text = <<>>
       THEN [parsed |-> FALSE,
             out |-> Thrown(ApiError(500,
                        "No response received from analysis service", <<>>))]
       ELSE [parsed |-> TRUE, out |-> parseAnalysisResponse(content.text)]

\* the external call resolves: processToothAnalysis runs to its end
CompletionResolves(r) ==
  /\ pc[r] = "awaiting"
  /\ \E completion \in Completions :
       LET after == AfterCompletion(completion)
           out == after.out
           err == ServiceCatch(out.error)
       IN /\ reply' = [reply EXCEPT ![r] = <<completion>>]
          /\ parseCalls' = [parseCalls EXCEPT
                              ![r] = IF after.parsed THEN @ + 1 ELSE @]
          /\ svcResult' = [svcResult EXCEPT
                             ![r] = IF out.ok THEN out ELSE Thrown(err)]
          /\ raised' = [raised EXCEPT
                          ![r] = IF out.ok THEN @ ELSE @ \o <<err>>]
  /\ pc' = [pc EXCEPT ![r] = "settled"]
  /\ UNCHANGED <<apiKey, openaiClient, constructed, handle, body, thrown,
                 response, initCalls, extCalls>>
  /\ UNCHANGED parseVars
  /\ UNCHANGED reqVars
  /\ UNCHANGED authVars

\* mutant of CompletionRejects: a rejected call is issued once more
M_CompletionRejects(r) ==
  /\ pc[r] = "awaiting"
  /\ \E error \in RawErrors :
       /\ reply' = [reply EXCEPT ![r] = <<Rejection(error)>>]
       /\ IF extCalls[r] < 2
          THEN /\ extCalls' = [extCalls EXCEPT ![r] = @ + 1]
               /\ UNCHANGED <<svcResult, raised, pc>>
          ELSE /\ svcResult' = [svcResult EXCEPT ![r] = Thrown(ServiceCatch(error))]
               /\ raised' = [raised EXCEPT ![r] = @ \o <<ServiceCatch(error)>>]
               /\ pc' = [pc EXCEPT ![r] = "settled"]
               /\ UNCHANGED extCalls
  /\ UNCHANGED <<apiKey, openaiClient, constructed, handle, body, thrown,
                 response, initCalls, parseCalls>>
  /\ UNCHANGED parseVars
  /\ UNCHANGED reqVars
  /\ UNCHANGED authVars

\* the external call rejects: the catch of processToothAnalysis classifies
CompletionRejects(r) ==
  /\ pc[r] = "awaiting"
  /\ \E error \in RawErrors :
       /\ reply' = [reply EXCEPT ![r] = <<Rejection(error)>>]
       /\ svcResult' = [svcResult EXCEPT ![r] = Thrown(ServiceCatch(error))]
       /\ raised' = [raised EXCEPT ![r] = @ \o <<ServiceCatch(error)>>]
  /\ pc' = [pc EXCEPT ![r] = "settled"]
  /\ UNCHANGED <<apiKey, openaiClient, constructed, handle, body, thrown,
                 response, initCalls, extCalls, parseCalls>>
  /\ UNCHANGED parseVars
  /\ UNCHANGED reqVars
  /\ UNCHANGED authVars

\* analyzeToothShade after its await: the record and the 200 response, or
\* its catch block
AnalyzeResumes(r) ==
  /\ pc[r] = "settled"
  /\ IF svcResult[r].ok
     THEN /\ \E now1 \in Instants, now2 \in Instants, suffix \in Suffixes :
               /\ now1 <= now2
               /\ response' = [response EXCEPT ![r] =
                    ApiResponse(200,
                      <<[record |-> createAnalysisRecord(body[r], svcResult[r].value,
                                                         now1, suffix, now2)]>>,
                      "Tooth shade analysis completed successfully", <<>>)]
          /\ pc' = [pc EXCEPT ![r] = "responded"]
          /\ UNCHANGED <<thrown, raised>>
     ELSE LET err == ControllerCatch(svcResult[r].error) IN
          Fails(r, err, IF err = svcResult[r].error THEN <<>> ELSE <<err>>)
  /\ UNCHANGED <<apiKey, openaiClient, constructed, handle, body, svcResult,
                 initCalls, extCalls, parseCalls, reply>>
  /\ UNCHANGED parseVars
  /\ UNCHANGED reqVars
  /\ UNCHANGED authVars

Next ==
  \E r \in Requests :
    \/ AnalyzeToothShade(r)
    \/ CompletionResolves(r)
    \/ CompletionRejects(r)
    \/ AnalyzeResumes(r)

Spec == Init /\ [][Next]_vars

(***************************************************************************)
(* The request-level functions on their own: validateAnalysisRequest for   *)
(* any argument, then, for a request it accepts, createAnalysisPrompt and  *)
(* createAnalysisRecord.                                                   *)
(***************************************************************************)
Png == <<"p", "n", "g">>
Webp == <<"w", "e", "b", "p">>
Gif == <<"g", "i", "f">>

DentistNames ==
  { FAbsent, FNull, FNum(<<"5">>), FBool(TRUE),
    FStr(<<>>), FStr(<<" ", " ">>),
    FStr(<<" ", "D", " ">>), FStr(<<" ", "A", "B", "\t">>),
    FStr(Rep("n", MAX_NAME_LENGTH)),
    FStr(<<" ">> \o Rep("n", MAX_NAME_LENGTH) \o <<" ">>),
    FStr(Rep("n", MAX_NAME_LENGTH + 1)),
    DrLee }
MobileNumbers ==
  { FAbsent, FNum(<<"5">>), FStr(<<" ">> \o Phone.chars \o <<" ">>),
    FStr(<<"0", "1", "2">>) }
PatientNames ==
  { FAbsent, FNull, FNum(<<"7">>), FStr(<<>>), FStr(<<" ", " ">>), Ann,
    FStr(Rep("p", MAX_NAME_LENGTH + 1)) }
\* images a request is accepted with
ValidImages == { Image(Png, MIN_BASE64_LENGTH), Image(Webp, MIN_BASE64_LENGTH + 1) }
ToothImages ==
  ValidImages \cup
  { FAbsent, FNum(<<"5">>), FStr(<<>>),
    Image(<<"j", "p", "e", "g">>, MIN_BASE64_LENGTH - 1),
    Image(Gif, MIN_BASE64_LENGTH),
    FStr(<<"d", "a", "t", "a", ":", "i", "m", "a", "g", "e", "/", "p", "n", "g">>
           \o Rep("A", MIN_BASE64_LENGTH)),
    FStr(DataPrefix(Png) \o Rep("A", 60) \o <<",">> \o Rep("A", 60)) }

\* an argument that is not an object: it has none of the properties
NonObject(tag) ==
  [t |-> tag, dentistName |-> FAbsent, dentistMobileNumber |-> FAbsent,
   patientName |-> FAbsent, toothImage1 |-> FAbsent, toothImage2 |-> FAbsent]
RequestInputs ==
  { NonObject(tag) : tag \in {"undefined", "null", "num", "str"} }
    \cup { AnalysisRequest(d, m, p, i1, i2) :
             d \in DentistNames, m \in MobileNumbers, p \in PatientNames,
             i1 \in ToothImages, i2 \in ToothImages }

\* recommendations processToothAnalysis may hand over
Results ==
  { GoodRecommendation,
    Recommendation(JStr("Canine"),
        JArr(<<Zone(JStr("Gingival Third"), JNum("3"), JStr("3M2"), JStr("dark"))>>),
        JStr("use A3 dentin"), Layered(JNum("5"), JStr("A1"), JStr("warm"))) }

RequestInit ==
  /\ apiKey = ""
  /\ PipeIdle
  /\ AuthIdle
  /\ payload = Undef
  /\ wrapped = FALSE
  /\ rawText = <<>>
  /\ parsePc = "off"
  /\ parseOut = Returned(Undef)
  /\ reqInput \in RequestInputs
  /\ twin = NoRequest
  /\ reqPc = "ready"
  /\ valResult = [threw |-> FALSE, isValid |-> FALSE, errors |-> <<>>]
  /\ prompt = <<>>
  /\ promptAgain = <<>>
  /\ analysis = Undef
  /\ record = <<>>

\* validateAnalysisRequest(requestData)
ValidateCall ==
  /\ reqPc = "ready"
  /\ valResult' = validateAnalysisRequest(reqInput)
  /\ reqPc' = IF valResult'.threw THEN "threw" ELSE "validated"
  /\ UNCHANGED <<reqInput, twin, prompt, promptAgain, analysis, record>>
  /\ UNCHANGED <<parseVars, pipeVars>>
  /\ UNCHANGED authVars

\* createAnalysisPrompt for the accepted request, and once more, later, for
\* a request with the same names and number and any accepted images
PromptCall ==
  /\ reqPc = "validated"
  /\ valResult.isValid
  /\ \E image1 \in ValidImages, image2 \in ValidImages :
       twin' = [reqInput EXCEPT !.toothImage1 = image1, !.toothImage2 = image2]
  /\ prompt' = createAnalysisPrompt(reqInput)
  /\ promptAgain' = createAnalysisPrompt(twin')
  /\ reqPc' = "prompted"
  /\ UNCHANGED <<reqInput, valResult, analysis, record>>
  /\ UNCHANGED <<parseVars, pipeVars>>
  /\ UNCHANGED authVars

\* createAnalysisRecord(request, analysis): nothing is assigned to either
\* argument
RecordCall ==
  /\ reqPc = "prompted"
  /\ \E result \in Results, now1 \in Instants, now2 \in Instants,
        suffix \in Suffixes :
       /\ now1 <= now2
       /\ analysis' = result
       /\ record' = createAnalysisRecord(reqInput, result, now1, suffix, now2)
  /\ reqPc' = "recorded"
  /\ UNCHANGED <<reqInput, twin, valResult, prompt, promptAgain>>
  /\ UNCHANGED <<parseVars, pipeVars>>
  /\ UNCHANGED authVars

RequestNext == ValidateCall \/ PromptCall \/ RecordCall
RequestSpec == RequestInit /\ [][RequestNext]_vars

(***************************************************************************)
(* Accounts: POST /api/auth/signup and POST /api/auth/login, over the      *)
(* users collection with its unique index on email.                        *)
(***************************************************************************)
UpperCase ==
  <<"A", "B", "C", "D", "E", "F", "G", "H", "I", "J", "K", "L", "M", "N", "O",
    "P", "Q", "R", "S", "T", "U", "V", "W", "X", "Y", "Z">>
LowerCase ==
  <<"a", "b", "c", "d", "e", "f", "g", "h", "i", "j", "k", "l", "m", "n", "o",
    "p", "q", "r", "s", "t", "u", "v", "w", "x", "y", "z">>
UpperLetters == {UpperCase[i] : i \in 1..Len(UpperCase)}
LowerLetters == {LowerCase[i] : i \in 1..Len(LowerCase)}
SpecialChars ==
  {"!", "@", "#", "$", "%", "^", "&", "*", "(", ")", "_", "+", "-", "=", "[",
   "]", "{", "}", ";", "'", ":", "\"", "\\", "|", ",", ".", "<", ">", "/", "?"}

\* String.prototype.toLowerCase
ToLowerCase(cs) ==
  [i \in 1..Len(cs) |->
     IF cs[i] \in UpperLetters
     THEN LowerCase[CHOOSE k \in 1..Len(UpperCase) : UpperCase[k] = cs[i]]
     ELSE cs[i]]

\* email.toLowerCase().trim(): the key the users collection is queried and
\* written with
NormalizeEmail(cs) == Trim(ToLowerCase(cs))

\* Configuration constants
PASSWORD_MIN_LENGTH == 8
NAME_MAX_LENGTH == 50

\* EMAIL_REGEX = /^[^\s@]+@[^\s@]+\.[^\s@]+$/
EMAIL_REGEX(cs) ==
  LET ats == {i \in 1..Len(cs) : cs[i] = "@"} IN
  /\ \A i \in 1..Len(cs) : cs[i] \notin Whitespace
  /\ Cardinality(ats) = 1
  /\ LET at == CHOOSE i \in ats : TRUE IN
     /\ at > 1
     /\ \E dot \in (at + 2)..(Len(cs) - 1) : cs[dot] = "."

validateEmailFormat(email) ==
  IF ~FTruthy(email) \/ email.t # "str" THEN FALSE
  ELSE EMAIL_REGEX(ToLowerCase(Trim(email.chars)))

validatePasswordStrength(password) ==
  IF ~FTruthy(password) \/ password.t # "str"
  THEN [isValid |-> FALSE, errors |-> <<"Password is required">>]
  ELSE
  LET cs == password.chars
      Has(class) == \E i \in 1..Len(cs) : cs[i] \in class
      errors ==
        (IF Len(cs) < PASSWORD_MIN_LENGTH
         THEN <<"Password must be at least 8 characters long">> ELSE <<>>)
        \o (IF ~Has(LowerLetters)
            THEN <<"Password must contain at least one lowercase letter">>
            ELSE <<>>)
        \o (IF ~Has(UpperLetters)
            THEN <<"Password must contain at least one uppercase letter">>
            ELSE <<>>)
        \o (IF ~Has(Digits)
            THEN <<"Password must contain at least one number">> ELSE <<>>)
        \o (IF ~Has(SpecialChars)
            THEN <<"Password must contain at least one special character">>
            ELSE <<>>)
  IN [isValid |-> Len(errors) = 0, errors |-> errors]

Patient == FStr(<<"p", "a", "t", "i", "e", "n", "t">>)
Doctor == FStr(<<"d", "o", "c", "t", "o", "r">>)

\* a name field of the signup data is missing: falsy, not a string, or
\* empty once trimmed
NameMissing(v) == ~FTruthy(v) \/ v.t # "str" \/ Len(Trim(v.chars)) = 0

validateSignupData(userData) ==
  LET errors ==
        (IF NameMissing(userData.firstName)
         THEN <<"First name is required">> ELSE <<>>)
        \o (IF NameMissing(userData.lastName)
            THEN <<"Last name is required">> ELSE <<>>)
        \o (IF NameMissing(userData.email) THEN <<"Email is required">>
            ELSE IF ~validateEmailFormat(userData.email)
            THEN <<"Please provide a valid email address">> ELSE <<>>)
        \o (IF ~FTruthy(userData.password) THEN <<"Password is required">>
            ELSE validatePasswordStrength(userData.password).errors)
        \o (IF ~FTruthy(userData.role) THEN <<"Role is required">>
            ELSE IF userData.role \notin {Patient, Doctor}
            THEN <<"Role must be either \"patient\" or \"doctor\"">>
            ELSE <<>>)
  IN [isValid |-> Len(errors) = 0, errors |-> errors]

\* bcrypt.hash and bcrypt.compare: the hash of a password is an opaque
\* value that compare matches with that password only; compare throws for
\* a candidate that is not a string
BcryptHash(password) == [bcrypt |-> password.chars]
BcryptCompare(candidate, hash) ==
  IF candidate.t # "str" THEN [threw |-> TRUE, same |-> FALSE]
  ELSE [threw |-> FALSE, same |-> hash = BcryptHash(candidate)]

\* new User({...}) as signup builds it, with the schema's setters applied
\* (email: lowercase and trim; names: trim)
NewUser(userData) ==
  [ email |-> Trim(ToLowerCase(NormalizeEmail(userData.email.chars))),
    password |-> userData.password,
    role |-> userData.role,
    firstName |-> Trim(Trim(userData.firstName.chars)),
    lastName |-> Trim(Trim(userData.lastName.chars)) ]

\* the schema's validators, run by save() before the pre-save hook
SchemaErrors(doc) ==
  (IF ~EMAIL_REGEX(doc.email)
   THEN <<"Please provide a valid email address">> ELSE <<>>)
  \o (IF Len(doc.password.chars) < PASSWORD_MIN_LENGTH
      THEN <<"Password must be at least 8 characters long">> ELSE <<>>)
  \o (IF doc.role \notin {Patient, Doctor}
      THEN <<"Role must be either 'patient' or 'doctor'">> ELSE <<>>)
  \o (IF Len(doc.firstName) > NAME_MAX_LENGTH
      THEN <<"First name cannot exceed 50 characters">> ELSE <<>>)
  \o (IF Len(doc.lastName) > NAME_MAX_LENGTH
      THEN <<"Last name cannot exceed 50 characters">> ELSE <<>>)

\* User.findOne({ email }): the _id of the first user with that email, 0
\* when there is none; a user's _id is its position in the collection
FindOne(store, email) ==
  LET hits == {i \in 1..Len(store) : store[i].email = email} IN
  IF hits = {} THEN 0 ELSE CHOOSE i \in hits : \A j \in hits : i <= j

\* mutant of DuplicateKey: the collection has no unique index on email
M_DuplicateKey(store, email) == FALSE

\* the unique index on email refuses the insert (error code 11000)
DuplicateKey(store, email) == \E i \in 1..Len(store) : store[i].email = email

\* the document save() stores: the pre-save hook has hashed the password
StoredUser(doc, id) ==
  [ id |-> id, email |-> doc.email, password |-> BcryptHash(doc.password),
    role |-> doc.role, firstName |-> doc.firstName, lastName |-> doc.lastName ]

\* generateToken(user): a signed credential made from the user's identity
generateToken(user) == [sub |-> user.id, email |-> user.email, role |-> user.role.chars]

\* the sanitized user of a response
UserResponse(user) ==
  [ id |-> user.id, email |-> user.email, role |-> user.role,
    firstName |-> user.firstName, lastName |-> user.lastName ]
LoginResponse(user) ==
  <<[user |-> UserResponse(user), token |-> generateToken(user)]>>

\* an error leaves a controller: asyncHandler hands it to errorHandler
AuthFails(a, err) ==
  /\ authResponse' = [authResponse EXCEPT ![a] = errorHandler(err)]
  /\ authPc' = [authPc EXCEPT ![a] = "responded"]

SignupData(email, password, role, firstName, lastName) ==
  [email |-> email, password |-> password, role |-> role,
   firstName |-> firstName, lastName |-> lastName]
LoginData(email, password) == [email |-> email, password |-> password]

MailUpper == FStr(<<"A", "n", "n", "@", "b", ".", "c", "o">>)
MailPadded == FStr(<<" ", "a", "N", "N", "@", "B", ".", "c", "o", " ">>)
MailOther == FStr(<<"z", "e", "d", "@", "b", ".", "c", "o">>)
GoodPassword == FStr(<<"A", "a", "1", "!", "a", "a", "a", "a">>)
OtherPassword == FStr(<<"B", "b", "2", "?", "b", "b", "b", "b">>)
WeakPassword == FStr(<<"a", "b", "c">>)
Lee == FStr(<<"L", "e", "e">>)

SignupBodies ==
  { SignupData(MailUpper, GoodPassword, Patient, Ann, Lee),
    SignupData(MailPadded, OtherPassword, Doctor, DrLee, Lee),
    SignupData(MailOther, GoodPassword, Patient, Lee, Ann),
    SignupData(MailUpper, WeakPassword, Patient, Ann, Lee),
    SignupData(MailPadded, GoodPassword, Patient,
               FStr(Rep("n", NAME_MAX_LENGTH + 1)), Lee),
    SignupData(FAbsent, FAbsent, FAbsent, FAbsent, FAbsent) }
LoginBodies ==
  { LoginData(MailPadded, GoodPassword),
    LoginData(MailUpper, OtherPassword),
    LoginData(MailOther, GoodPassword),
    LoginData(MailUpper, FNum(<<"5">>)),
    LoginData(FStr(<<" ">>), GoodPassword),
    LoginData(FAbsent, GoodPassword),
    LoginData(FNum(<<"5">>), GoodPassword) }

\* the users collection when the process starts: empty, or holding an
\* account made earlier
EarlierUser ==
  StoredUser(NewUser(SignupData(MailUpper, GoodPassword, Patient, Ann, Lee)), 1)

AuthInit ==
  /\ apiKey = ""
  /\ PipeIdle
  /\ ReqIdle
  /\ payload = Undef
  /\ wrapped = FALSE
  /\ rawText = <<>>
  /\ parsePc = "off"
  /\ parseOut = Returned(Undef)
  /\ users \in {<<>>, <<EarlierUser>>}
  /\ AuthRequestsIdle

\* signup up to its first await: validation, then User.findOne is issued
Signup(a) ==
  /\ authPc[a] = "idle"
  /\ \E userData \in SignupBodies :
       LET validation == validateSignupData(userData) IN
       /\ authBody' = [authBody EXCEPT ![a] = userData]
       /\ IF ~validation.isValid
          THEN AuthFails(a, ApiError(400, "Validation failed", validation.errors))
          ELSE /\ authPc' = [authPc EXCEPT ![a] = "findOne"]
               /\ UNCHANGED authResponse
  /\ authKind' = [authKind EXCEPT ![a] = "signup"]
  /\ UNCHANGED <<users, lookup, cookie>>
  /\ UNCHANGED <<parseVars, pipeVars, reqVars>>

\* User.findOne resolves for a signup: 409 when it found a user, else the
\* new user is built and save() is issued
SignupFindOneResolves(a) ==
  /\ authKind[a] = "signup" /\ authPc[a] = "findOne"
  /\ LET existingUser ==
           FindOne(users, NormalizeEmail(authBody[a].email.chars)) IN
     /\ lookup' = [lookup EXCEPT ![a] = existingUser]
     /\ IF existingUser # 0
        THEN AuthFails(a, ApiError(409, "User with this email already exists", <<>>))
        ELSE /\ authPc' = [authPc EXCEPT ![a] = "save"]
             /\ UNCHANGED authResponse
  /\ UNCHANGED <<users, authKind, authBody, cookie>>
  /\ UNCHANGED <<parseVars, pipeVars, reqVars>>

\* newUser.save() settles: the schema's validators, then the insert under
\* the unique index; then the token, the cookie and the 201 response, or
\* the catch block of signup
SignupSaveSettles(a) ==
  /\ authKind[a] = "signup" /\ authPc[a] = "save"
  /\ LET newUser == NewUser(authBody[a])
         validationErrors == SchemaErrors(newUser)
         savedUser == StoredUser(newUser, Len(users) + 1)
     IN IF validationErrors # <<>>
        THEN /\ AuthFails(a, ApiError(400, "Validation failed", validationErrors))
             /\ UNCHANGED <<users, cookie>>
        ELSE IF DuplicateKey(users, newUser.email)
        THEN /\ AuthFails(a, ApiError(409, "User with this email already exists", <<>>))
             /\ UNCHANGED <<users, cookie>>
        ELSE /\ users' = Append(users, savedUser)
             /\ cookie' = [cookie EXCEPT ![a] = generateToken(savedUser)]
             /\ authResponse' = [authResponse EXCEPT ![a] =
                  ApiResponse(201, LoginResponse(savedUser),
                              "User account created successfully", <<>>)]
             /\ authPc' = [authPc EXCEPT ![a] = "responded"]
  /\ UNCHANGED <<authKind, authBody, lookup>>
  /\ UNCHANGED <<parseVars, pipeVars, reqVars>>

\* login up to its first await: the required fields, then User.findOne is
\* issued (email.toLowerCase throws for an email that is not a string)
Login(a) ==
  /\ authPc[a] = "idle"
  /\ \E data \in LoginBodies :
       /\ authBody' = [authBody EXCEPT ![a] = data]
       /\ IF ~FTruthy(data.email) \/ ~FTruthy(data.password)
          THEN AuthFails(a, ApiError(400, "Email and password are required", <<>>))
          ELSE IF data.email.t # "str"
          THEN AuthFails(a, RawError("TypeError",
                                     "email.toLowerCase is not a function", {}, ""))
          ELSE /\ authPc' = [authPc EXCEPT ![a] = "findOne"]
               /\ UNCHANGED authResponse
  /\ authKind' = [authKind EXCEPT ![a] = "login"]
  /\ UNCHANGED <<users, lookup, cookie>>
  /\ UNCHANGED <<parseVars, pipeVars, reqVars>>

\* mutant of LoginFindOneResolves: an unknown email is answered with an
\* error of its own
M_LoginFindOneResolves(a) ==
  /\ authKind[a] = "login" /\ authPc[a] = "findOne"
  /\ LET user == FindOne(users, NormalizeEmail(authBody[a].email.chars)) IN
     /\ lookup' = [lookup EXCEPT ![a] = user]
     /\ IF user = 0
        THEN AuthFails(a, ApiError(404, "User not found", <<>>))
        ELSE /\ authPc' = [authPc EXCEPT ![a] = "compare"]
             /\ UNCHANGED authResponse
  /\ UNCHANGED <<users, authKind, authBody, cookie>>
  /\ UNCHANGED <<parseVars, pipeVars, reqVars>>

\* User.findOne resolves for a login: 401 when there is no such user, else
\* user.comparePassword is issued
LoginFindOneResolves(a) ==
  /\ authKind[a] = "login" /\ authPc[a] = "findOne"
  /\ LET user == FindOne(users, NormalizeEmail(authBody[a].email.chars)) IN
     /\ lookup' = [lookup EXCEPT ![a] = user]
     /\ IF user = 0
        THEN AuthFails(a, ApiError(401, "Invalid email or password", <<>>))
        ELSE /\ authPc' = [authPc EXCEPT ![a] = "compare"]
             /\ UNCHANGED authResponse
  /\ UNCHANGED <<users, authKind, authBody, cookie>>
  /\ UNCHANGED <<parseVars, pipeVars, reqVars>>

\* userSchema.methods.comparePassword: false when bcrypt.compare throws
comparePassword(user, candidatePassword) ==
  LET compared == BcryptCompare(candidatePassword, user.password) IN
  IF compared.threw THEN FALSE ELSE compared.same

\* user.comparePassword resolves: 401 when the password is not the user's,
\* else the token, the cookie and the 200 response
LoginCompareResolves(a) ==
  /\ authKind[a] = "login" /\ authPc[a] = "compare"
  /\ LET user == users[lookup[a]]
         isPasswordValid == comparePassword(user, authBody[a].password)
     IN IF ~isPasswordValid
        THEN /\ AuthFails(a, ApiError(401, "Invalid email or password", <<>>))
             /\ UNCHANGED cookie
        ELSE /\ cookie' = [cookie EXCEPT ![a] = generateToken(user)]
             /\ authResponse' = [authResponse EXCEPT ![a] =
                  ApiResponse(200, LoginResponse(user), "Login successful", <<>>)]
             /\ authPc' = [authPc EXCEPT ![a] = "responded"]
  /\ UNCHANGED <<users, authKind, authBody, lookup>>
  /\ UNCHANGED <<parseVars, pipeVars, reqVars>>

AuthNext ==
  \E a \in Requests :
    \/ Signup(a)
    \/ SignupFindOneResolves(a)
    \/ SignupSaveSettles(a)
    \/ Login(a)
    \/ LoginFindOneResolves(a)
    \/ LoginCompareResolves(a)

AuthSpec == AuthInit /\ [][AuthNext]_vars

(***************************************************************************)
(* Properties of parseAnalysisResponse (ParseSpec).                        *)
(***************************************************************************)
ZoneFields == {"zone", "vita_classical", "vita_3d_master", "notes"}
LayerFields == {"dentin_layer", "enamel_layer", "cervical_tint"}

\* the reply is a syntactically valid JSON text
IsJsonText == rawText \notin JunkTexts
\* the document the reply was written from
Document == IF wrapped THEN Wrap(payload) ELSE payload
\* the recommendation payload of the document: the value under the wrapper
\* key when there is a truthy one, the document itself otherwise
Target == IF wrapped /\ Truthy(payload) THEN payload ELSE Document

IsNonEmptyString(v) == v.t = "str" /\ v.s # ""
IsNonEmptyArray(v) == v.t = "arr" /\ Len(v.items) > 0
IsObjectTyped(v) == v.t \in {"obj", "arr"}
ElementTruthy(z) ==
  /\ z.t \notin {"null", "undefined"}
  /\ \A f \in ZoneFields : Truthy(GetProp(z, f))
LayersTruthy(l) == \A f \in LayerFields : Truthy(GetProp(l, f))

\* index of the first FALSE of a sequence of check results, 0 when all pass
FirstFailing(checks) ==
  IF \A i \in 1..Len(checks) : checks[i] THEN 0
  ELSE CHOOSE i \in 1..Len(checks) :
         ~checks[i] /\ \A j \in 1..(i - 1) : checks[j]

\* the field a parser message names ("" when it names none)
FieldNamedBy(msg) ==
  CASE msg = MsgToothType -> "estimated_tooth_type"
    [] msg \in {MsgZonal, MsgZoneStructure} -> "zonal_analysis"
    [] msg = MsgGeneral -> "general_suggestion"
    [] msg \in {MsgLayered, MsgLayeredStructure} -> "layered_recommendation"
    [] OTHER -> ""

\* the four checks in the order the specification lists them
ListedChecks(rec) ==
  LET zonal == GetProp(rec, "zonal_analysis")
      layered == GetProp(rec, "layered_recommendation")
  IN << IsNonEmptyString(GetProp(rec, "estimated_tooth_type")),
        IsNonEmptyArray(zonal)
          /\ \A i \in 1..Len(zonal.items) : ElementTruthy(zonal.items[i]),
        IsNonEmptyString(GetProp(rec, "general_suggestion")),
        IsObjectTyped(layered) /\ LayersTruthy(layered) >>
ListedFields ==
  << "estimated_tooth_type", "zonal_analysis", "general_suggestion",
     "layered_recommendation" >>

\* C2 as stated: for a reply that parses to a JSON object, the error is the
\* one of the first failing check in the order tooth type, zonal analysis
\* (array and elements), general suggestion, layered recommendation (object
\* and sub-fields), and its message names that field.
C2_ListedOrder ==
  (parsePc = "done" /\ IsJsonText /\ Document.t = "obj"
     /\ FirstFailing(ListedChecks(Target)) # 0)
    => /\ ~parseOut.ok
       /\ FieldNamedBy(parseOut.error.message)
            = ListedFields[FirstFailing(ListedChecks(Target))]

\* the six checks in the order the parser makes them: the four shallow ones
\* first, the zone elements and the layer sub-fields after them
ShallowChecks(rec) ==
  << IsNonEmptyString(GetProp(rec, "estimated_tooth_type")),
     IsNonEmptyArray(GetProp(rec, "zonal_analysis")),
     IsNonEmptyString(GetProp(rec, "general_suggestion")),
     IsObjectTyped(GetProp(rec, "layered_recommendation")) >>
ShallowMessages == <<MsgToothType, MsgZonal, MsgGeneral, MsgLayered>>
ElementChecks(rec) ==
  LET zs == GetProp(rec, "zonal_analysis").items
  IN [i \in 1..Len(zs) |-> ElementTruthy(zs[i])]

\* C2 (amended): for a reply that parses to a JSON object, the checks run in
\* the order tooth type, zonal_analysis is a non-empty array, general
\* suggestion, layered_recommendation is an object, every zone element has its
\* four fields truthy, the three layer sub-fields are truthy; the error is the
\* one of the first failing check in that order. The first four messages name
\* the field; a faulty zone element gives the zonal-structure message (the
\* invalid-JSON message when that element is null); a faulty layer sub-field
\* gives the layered-structure message.
C2_CodeOrder ==
  (parsePc = "done" /\ IsJsonText /\ Document.t = "obj") =>
    LET shallow == FirstFailing(ShallowChecks(Target))
        zs == GetProp(Target, "zonal_analysis").items
        elem == FirstFailing(ElementChecks(Target))
    IN IF shallow # 0
         THEN ~parseOut.ok /\ parseOut.error.message = ShallowMessages[shallow]
       ELSE IF elem # 0
         THEN /\ ~parseOut.ok
              /\ parseOut.error.message =
                   IF zs[elem].t = "null" THEN MsgInvalidJson ELSE MsgZoneStructure
       ELSE IF ~LayersTruthy(GetProp(Target, "layered_recommendation"))
         THEN ~parseOut.ok /\ parseOut.error.message = MsgLayeredStructure
       ELSE parseOut.ok

\* C2 witness: a reply with a faulty zone element and no general suggestion
\* has been refused with the general-suggestion message
C2_Witness ==
  /\ parsePc = "done" /\ IsJsonText /\ Document.t = "obj"
  /\ ListedChecks(Target)[1] /\ ~ListedChecks(Target)[2] /\ ~ListedChecks(Target)[3]
  /\ IsNonEmptyArray(GetProp(Target, "zonal_analysis"))
  /\ parseOut.error.message = MsgGeneral

\* C3 as stated (on the replies that are JSON objects): every valid JSON
\* reply whose zonal_analysis is not a non-empty array is refused with the
\* message naming zonal_analysis
C3_AlwaysZonal ==
  (parsePc = "done" /\ IsJsonText /\ Document.t = "obj"
     /\ ~IsNonEmptyArray(GetProp(Target, "zonal_analysis")))
    => ~parseOut.ok /\ parseOut.error.message = MsgZonal

\* C3 (amended): every valid JSON reply whose payload has a non-empty string
\* estimated_tooth_type and whose zonal_analysis is not a non-empty array is
\* refused with status 500 and the message naming zonal_analysis, whatever
\* its general_suggestion and layered_recommendation are
C3_ZonalAfterToothType ==
  (parsePc = "done" /\ IsJsonText
     /\ IsNonEmptyString(GetProp(Target, "estimated_tooth_type"))
     /\ ~IsNonEmptyArray(GetProp(Target, "zonal_analysis")))
    => /\ ~parseOut.ok
       /\ parseOut.error.statusCode = 500
       /\ parseOut.error.message = MsgZonal

\* C3 witness: a wrapped reply with an empty zonal_analysis, and with the
\* general suggestion and the layered recommendation missing too, was refused
C3_Witness ==
  /\ parsePc = "done" /\ wrapped
  /\ IsNonEmptyString(GetProp(payload, "estimated_tooth_type"))
  /\ GetProp(payload, "zonal_analysis") = JArr(<<>>)
  /\ GetProp(payload, "general_suggestion") = Undef
  /\ GetProp(payload, "layered_recommendation") = Undef
  /\ parseOut.error.message = MsgZonal

\* a value of the FinalRecommendation data model: exactly the four fields,
\* zones among the three fixed regions, every leaf a non-empty string
IsKeySet(v, keys) ==
  /\ v.t = "obj"
  /\ Len(v.items) = Cardinality(keys)
  /\ {v.items[i].k : i \in 1..Len(v.items)} = keys
IsZonalAnalysis(z) ==
  /\ IsKeySet(z, ZoneFields)
  /\ GetProp(z, "zone").t = "str" /\ GetProp(z, "zone").s \in ZoneNames
  /\ \A f \in ZoneFields : IsNonEmptyString(GetProp(z, f))
IsLayeredRecommendation(l) ==
  /\ IsKeySet(l, LayerFields)
  /\ \A f \in LayerFields : IsNonEmptyString(GetProp(l, f))
IsFinalRecommendation(r) ==
  /\ IsKeySet(r, {"estimated_tooth_type", "zonal_analysis",
                  "general_suggestion", "layered_recommendation"})
  /\ IsNonEmptyString(GetProp(r, "estimated_tooth_type"))
  /\ IsNonEmptyArray(GetProp(r, "zonal_analysis"))
  /\ \A i \in 1..Len(GetProp(r, "zonal_analysis").items) :
        IsZonalAnalysis(GetProp(r, "zonal_analysis").items[i])
  /\ IsNonEmptyString(GetProp(r, "general_suggestion"))
  /\ IsLayeredRecommendation(GetProp(r, "layered_recommendation"))

\* C4: round trip. For a well-formed recommendation R, the JSON text of R
\* and the JSON text of {final_recommendation: R} both parse to a value
\* equal to R, entry for entry.
C4_RoundTrip ==
  (parsePc = "done" /\ IsFinalRecommendation(payload))
    => parseOut.ok /\ parseOut.value = payload

\* C4 witness: a wrapped well-formed recommendation of two different zones
\* has been parsed
C4_Witness ==
  /\ parsePc = "done" /\ wrapped /\ IsFinalRecommendation(payload)
  /\ Len(GetProp(payload, "zonal_analysis").items) = 2
  /\ GetProp(payload, "zonal_analysis").items[1]
       # GetProp(payload, "zonal_analysis").items[2]
  /\ parseOut.ok

\* present, and not the empty string
IsPresent(v) == v.t \notin {"undefined", "null"} /\ ~(v.t = "str" /\ v.s = "")

\* a complete recommendation: estimated_tooth_type, a non-empty
\* zonal_analysis whose every element has its four fields, general_suggestion
\* and a layered_recommendation with its three sub-fields, each present and
\* non-empty
IsComplete(r) ==
  LET zonal == GetProp(r, "zonal_analysis")
      layered == GetProp(r, "layered_recommendation")
  IN /\ IsPresent(GetProp(r, "estimated_tooth_type"))
     /\ IsNonEmptyArray(zonal)
     /\ \A i \in 1..Len(zonal.items) :
           \A f \in ZoneFields : IsPresent(GetProp(zonal.items[i], f))
     /\ IsPresent(GetProp(r, "general_suggestion"))
     /\ IsPresent(layered)
     /\ \A f \in LayerFields : IsPresent(GetProp(layered, f))

\* C5: no partial recommendation is returned. A returned value has
\* estimated_tooth_type, a non-empty zonal_analysis whose every element has
\* its four fields present and non-empty, general_suggestion, and a
\* layered_recommendation whose three sub-fields are present and non-empty.
C5_NoPartial ==
  (parsePc = "done" /\ parseOut.ok) => IsComplete(parseOut.value)

\* C5 witness: a recommendation of two zones has been returned
C5_Witness ==
  /\ parsePc = "done" /\ parseOut.ok
  /\ Len(GetProp(parseOut.value, "zonal_analysis").items) = 2

\* C6 as stated: every returned value conforms to the FinalRecommendation
\* data model (zone one of the three regions, every leaf a non-empty string)
C6_ConformsToDataModel ==
  (parsePc = "done" /\ parseOut.ok) => IsFinalRecommendation(parseOut.value)

(***************************************************************************)
(* Properties of the pipeline (Spec).                                      *)
(***************************************************************************)
Responded(r) == pc[r] = "responded"
Failed(r) == pc[r] = "responded" /\ ~response[r].success
\* how the external call of request r settled
Settlement(r) == reply[r][1]
WasRejected(r) == reply[r] # <<>> /\ Settlement(r).kind = "rejected"
\* the call resolved with a first choice whose content is a non-empty text
HasReplyText(r) ==
  /\ reply[r] # <<>> /\ Settlement(r).kind = "resolved"
  /\ Settlement(r).hasChoices /\ Len(Settlement(r).choices) > 0
  /\ Settlement(r).choices[1].t = "str"
  /\ Settlement(r).choices[1].text # <<>>
ReplyText(r) == Settlement(r).choices[1].text

\* C1: a request that validateAnalysisRequest refuses is answered with the
\* 400 'Validation failed' error carrying the validator's error list, and
\* neither initializeOpenAIClient nor the external call is reached for it.
C1_ValidationStopsPipeline ==
  \A r \in Requests :
    (pc[r] # "idle" /\ ~validateAnalysisRequest(body[r]).isValid) =>
      /\ Responded(r)
      /\ thrown[r].api /\ thrown[r].statusCode = 400
      /\ thrown[r].message = "Validation failed"
      /\ thrown[r].errors = validateAnalysisRequest(body[r]).errors
      /\ response[r].statusCode = 400 /\ ~response[r].success
      /\ response[r].message = "Validation failed"
      /\ response[r].errors = validateAnalysisRequest(body[r]).errors
      /\ initCalls[r] = 0 /\ extCalls[r] = 0
      /\ reply[r] = <<>>

\* C1 witness: a request with several faulty fields has been refused while
\* the client exists (another request initialised it)
C1_Witness ==
  \E r \in Requests :
    /\ Responded(r) /\ response[r].statusCode = 400
    /\ Len(response[r].errors) >= 2
    /\ openaiClient # NoClient

\* the recommendation payload of a parsed reply
PayloadOf(doc) ==
  IF Truthy(GetProp(doc, "final_recommendation"))
  THEN GetProp(doc, "final_recommendation") ELSE doc

\* C7 as stated: a model reply that is no JSON, or that does not satisfy the
\* recommendation schema (the FinalRecommendation data model), makes the
\* request fail with status 500; for a reply that is no JSON the message is
\* the invalid-JSON-format one.
C7_BadReplyIs500 ==
  \A r \in Requests :
    (Responded(r) /\ HasReplyText(r)) =>
      LET doc == JSONParse(ReplyText(r)) IN
      /\ (~doc.ok \/ ~IsFinalRecommendation(PayloadOf(doc.val))) =>
           /\ response[r].statusCode = 500 /\ ~response[r].success
           /\ response[r].data = <<>>
      /\ ~doc.ok => response[r].message = MsgInvalidJson

\* C8 as stated: a rejection with code ECONNREFUSED or ENOTFOUND reaches the
\* client as 503 service unavailable
C8_ConnectionFailureIs503 ==
  \A r \in Requests :
    (Responded(r) /\ WasRejected(r)
       /\ Settlement(r).error.code \in {"ECONNREFUSED", "ENOTFOUND"})
      => response[r].statusCode = 503

\* the status the ordered rule list gives a message with these markers
RuleStatus(markers) ==
  IF "401" \in markers \/ "authentication" \in markers THEN 401
  ELSE IF "429" \in markers THEN 429
  ELSE IF "timeout" \in markers THEN 408
  ELSE 500

FieldOrder ==
  <<"dentistName", "dentistMobileNumber", "patientName", "toothImage1",
    "toothImage2">>
Fields == {FieldOrder[i] : i \in 1..Len(FieldOrder)}
\* the messages that speak of each field
FieldMessages ==
  [ dentistName |->
      { "Dentist name is required",
        "Dentist name must be at least 2 characters long",
        "Dentist name must not exceed 100 characters" },
    dentistMobileNumber |->
      { "Dentist mobile number is required",
        "Please provide a valid mobile number" },
    patientName |->
      { "Patient name is required", "Patient name must be a string",
        "Patient name must not exceed 100 characters" },
    toothImage1 |->
      { "toothImage1 is required",
        "toothImage1 must be a valid image data URI (jpeg, jpg, png, or webp)",
        "toothImage1 appears to contain invalid or insufficient image data",
        "toothImage1 contains malformed data URI" },
    toothImage2 |->
      { "toothImage2 is required",
        "toothImage2 must be a valid image data URI (jpeg, jpg, png, or webp)",
        "toothImage2 appears to contain invalid or insufficient image data",
        "toothImage2 contains malformed data URI" } ]
RequiredMessage ==
  [ dentistName |-> "Dentist name is required",
    dentistMobileNumber |-> "Dentist mobile number is required",
    patientName |-> "Patient name is required",
    toothImage1 |-> "toothImage1 is required",
    toothImage2 |-> "toothImage2 is required" ]
\* validateAnalysisRequest has been called and has returned
ValidatorReturned == reqPc \in {"validated", "prompted", "recorded"}
\* the errors of the result that speak of field f, in the result's order
ErrorsOf(f) ==
  LET Speaks(e) == e \in FieldMessages[f] IN SelectSeq(valResult.errors, Speaks)
\* the check of field f, run on its own
CheckOf(f) ==
  CASE f = "dentistName" -> validateDentistName(GetField(reqInput, f))
    [] f = "dentistMobileNumber" -> validateMobileNumber(GetField(reqInput, f))
    [] f = "patientName" -> validatePatientName(GetField(reqInput, f))
    [] OTHER -> validateImageDataURI(GetField(reqInput, f), f)
\* the field holds a value that is not a string
WrongType(f) == reqInput[f].t \in {"num", "bool", "obj"}

\* C11: validateAnalysisRequest never throws: whatever its argument
\* (undefined, null, a non-object, an object with fields of any type or
\* absent), the call returns a result, and the result is valid exactly when
\* its error list is empty.
C11_NeverThrows ==
  reqPc \notin {"off", "ready"} =>
    /\ ~valResult.threw
    /\ reqPc # "threw"
    /\ valResult.isValid <=> (valResult.errors = <<>>)

\* C12: the result of validateAnalysisRequest holds the errors of all five
\* checks, each run whatever the others found, in the order dentist name,
\* mobile number, patient name, toothImage1, toothImage2; it is valid if
\* and only if that list is empty.
C12_AllChecksInOrder ==
  ValidatorReturned =>
    /\ \A f \in Fields : ErrorsOf(f) = CheckOf(f)
    /\ valResult.errors =
         ErrorsOf(FieldOrder[1]) \o ErrorsOf(FieldOrder[2])
           \o ErrorsOf(FieldOrder[3]) \o ErrorsOf(FieldOrder[4])
           \o ErrorsOf(FieldOrder[5])
    /\ valResult.isValid <=> (valResult.errors = <<>>)

\* C12 witness: a request faulty in all five fields has been validated
C12_Witness ==
  /\ ValidatorReturned
  /\ \A f \in Fields : ErrorsOf(f) # <<>>
  /\ Len(valResult.errors) >= 6

\* C13 as stated: a field holding a value that is not a string is reported
\* with that field's 'is required' message, and with nothing else.
C13_WrongTypeIsRequired ==
  ValidatorReturned =>
    \A f \in Fields : WrongType(f) => ErrorsOf(f) = <<RequiredMessage[f]>>

\* C13 as the code has it: dentistName, dentistMobileNumber, toothImage1 and
\* toothImage2 holding a value that is not a string are reported with the
\* field's 'is required' message and nothing else; patientName holding one
\* is reported with 'Patient name must be a string'.
C13_WrongTypeMessages ==
  ValidatorReturned =>
    \A f \in Fields : WrongType(f) =>
      ErrorsOf(f) = IF f = "patientName"
                    THEN <<"Patient name must be a string">>
                    ELSE <<RequiredMessage[f]>>

\* C13 witness: a request whose dentist name, patient name and first image
\* are numbers, or a boolean, has been validated
C13_Witness ==
  /\ ValidatorReturned
  /\ reqInput.dentistName.t = "bool"
  /\ reqInput.dentistMobileNumber.t = "num"
  /\ reqInput.patientName.t = "num"
  /\ reqInput.toothImage1.t = "num"
  /\ reqInput.toothImage2.t = "str"

\* the text has one of the prefixes data:image/(jpeg|jpg|png|webp);base64,
HasImagePrefix(cs) == \E mime \in MimeTypes : IsPrefix(DataPrefix(mime), cs)
\* what follows the first comma of the text (nothing when it has no comma)
RECURSIVE AfterFirstComma(_)
AfterFirstComma(cs) ==
  IF cs = <<>> THEN <<>>
  ELSE IF Head(cs) = "," THEN Tail(cs)
  ELSE AfterFirstComma(Tail(cs))
ImageFields == {"toothImage1", "toothImage2"}
\* the image is a string the claim says must be refused
FaultyImage(f) ==
  /\ reqInput[f].t = "str"
  /\ \/ ~HasImagePrefix(reqInput[f].chars)
     \/ Len(AfterFirstComma(reqInput[f].chars)) < MIN_BASE64_LENGTH

\* C14: each image is validated on its own: a toothImage1 or toothImage2
\* string without one of the data:image/(jpeg|jpg|png|webp);base64, prefixes,
\* or whose payload after the first comma is shorter than the minimum,
\* makes validation fail with an error that names that field, whatever the
\* other image is.
C14_ImagesIndependent ==
  ValidatorReturned =>
    \A f \in ImageFields : FaultyImage(f) =>
      /\ ~valResult.isValid
      /\ ErrorsOf(f) # <<>>

\* C14 witness: toothImage1 is accepted while toothImage2, with a right
\* prefix and a short payload, is refused by name
C14_Witness ==
  /\ ValidatorReturned
  /\ reqInput.toothImage1 \in ValidImages
  /\ ErrorsOf("toothImage1") = <<>>
  /\ reqInput.toothImage2.t = "str"
  /\ HasImagePrefix(reqInput.toothImage2.chars)
  /\ Len(AfterFirstComma(reqInput.toothImage2.chars)) = MIN_BASE64_LENGTH - 1
  /\ ErrorsOf("toothImage2") # <<>>

\* the text without its leading white space, and without white space at
\* either end
RECURSIVE StripLeading(_)
StripLeading(cs) ==
  IF cs # <<>> /\ Head(cs) \in Whitespace THEN StripLeading(Tail(cs)) ELSE cs
RECURSIVE StripTrailing(_)
StripTrailing(cs) ==
  IF cs # <<>> /\ cs[Len(cs)] \in Whitespace
  THEN StripTrailing(SubSeq(cs, 1, Len(cs) - 1)) ELSE cs
Stripped(cs) == StripTrailing(StripLeading(cs))

\* C15: a string dentistName gets no dentist-name error if and only if its
\* length after trimming is between 2 and 100 inclusive; lengths 0, 1 and
\* 101 after trimming are refused, lengths 2 and 100 accepted.
C15_DentistNameLength ==
  (ValidatorReturned /\ reqInput.dentistName.t = "str") =>
    LET n == Len(Stripped(reqInput.dentistName.chars)) IN
    /\ ErrorsOf("dentistName") = <<>> <=> n \in 2..100
    /\ n \in {0, 1, 101} => ErrorsOf("dentistName") # <<>>
    /\ n \in {2, 100} => ErrorsOf("dentistName") = <<>>

\* C15 witness: a name of 100 characters between two spaces has been
\* accepted
C15_Witness ==
  /\ ValidatorReturned
  /\ reqInput.dentistName.t = "str"
  /\ Len(reqInput.dentistName.chars) = 102
  /\ Len(Stripped(reqInput.dentistName.chars)) = 100
  /\ ErrorsOf("dentistName") = <<>>

\* createAnalysisRecord has been called and has returned
Recorded == reqPc = "recorded"

\* C16: the record built for an accepted request either has no patientName
\* property or has a non-empty string there; it never carries an empty
\* string, null or undefined (also when the request's patientName is white
\* space only).
C16_NoEmptyPatientName ==
  Recorded =>
    \/ record.patientName.t = "absent"
    \/ record.patientName.t = "str" /\ record.patientName.chars # <<>>

\* C17: the record echoes dentistName and dentistMobileNumber trimmed,
\* carries toothImage1 and toothImage2 exactly as the request has them, and
\* nests the recommendation unchanged under analysis.final_recommendation;
\* the call leaves the request as it was.
C17_RecordEchoes ==
  [][ (reqPc = "prompted" /\ reqPc' = "recorded") =>
        /\ record'.dentistName = FStr(Stripped(reqInput.dentistName.chars))
        /\ record'.dentistMobileNumber =
             FStr(Stripped(reqInput.dentistMobileNumber.chars))
        /\ record'.toothImage1 = reqInput.toothImage1
        /\ record'.toothImage2 = reqInput.toothImage2
        /\ record'.analysis.final_recommendation = analysis'
        /\ analysis' \in Results
        /\ reqInput' = reqInput ]_vars

\* C17 witness: a record has been built for a request whose name and number
\* had white space around them and whose two images differ
C17_Witness ==
  /\ Recorded
  /\ Len(record.dentistName.chars) < Len(reqInput.dentistName.chars)
  /\ Len(record.dentistMobileNumber.chars) < Len(reqInput.dentistMobileNumber.chars)
  /\ reqInput.toothImage1 # reqInput.toothImage2
  /\ record.toothImage2 = reqInput.toothImage2

\* createAnalysisPrompt has been called for reqInput and again for twin
Prompted == reqPc \in {"prompted", "recorded"}

\* C18: createAnalysisPrompt is deterministic and its text depends only on
\* dentistName, dentistMobileNumber and patientName: a second call, for a
\* request with the same three values and any images, gives the same text.
C18_PromptDeterministic ==
  Prompted =>
    /\ twin.dentistName = reqInput.dentistName
    /\ twin.dentistMobileNumber = reqInput.dentistMobileNumber
    /\ twin.patientName = reqInput.patientName
    /\ promptAgain = prompt

\* C18 witness: the prompt has been built for a request with a patient name
\* and again for one that differs from it in both images
C18_Witness ==
  /\ Prompted
  /\ FTruthy(reqInput.patientName)
  /\ twin.toothImage1 # reqInput.toothImage1
  /\ twin.toothImage2 # reqInput.toothImage2
  /\ Len(prompt) = 8

(***************************************************************************)
(* Properties of the pipeline's control flow (Spec).                       *)
(***************************************************************************)
\* the run of request r has failed: processToothAnalysis threw, or an error
\* response has been sent
RunFailed(r) ==
  \/ pc[r] = "settled" /\ ~svcResult[r].ok
  \/ Failed(r)

\* C19: no retries: a run issues the external call at most once, and once
\* it has failed (rejected call, empty content, reply refused by the
\* parser) it issues no further call, never goes back to an earlier stage,
\* and ends with an error response that is not replaced.
C19_NoRetries ==
  [][ \A r \in Requests :
        /\ extCalls'[r] <= 1
        /\ RunFailed(r) =>
             /\ extCalls'[r] = extCalls[r]
             /\ pc'[r] \in {pc[r], "responded"}
             /\ pc'[r] = "responded" => ~response'[r].success
             /\ Failed(r) => response'[r] = response[r] ]_vars

\* C19 witness: a run whose call was rejected with a rate-limit error has
\* ended with the 429 response after one call
C19_Witness ==
  \E r \in Requests :
    /\ Failed(r) /\ WasRejected(r)
    /\ response[r].statusCode = 429
    /\ extCalls[r] = 1

\* C20: the shared client is made at most once per process: once
\* openaiClient is set it is never assigned again, and every
\* initializeOpenAIClient call hands out that same handle, however the
\* requests interleave.
C20_ClientOnce ==
  [][ /\ openaiClient # NoClient => openaiClient' = openaiClient
      /\ constructed' <= 1
      /\ \A r \in Requests :
           handle'[r] # NoClient => handle'[r] = openaiClient' ]_vars

\* C20 witness: two requests are both waiting for their call, each holding
\* the handle, and one client has been made
C20_Witness ==
  \E r1 \in Requests, r2 \in Requests :
    /\ r1 # r2
    /\ pc[r1] = "awaiting" /\ pc[r2] = "awaiting"
    /\ handle[r1] # NoClient /\ handle[r2] = handle[r1]
    /\ constructed = 1

\* the request was accepted by validation and went on to the service
ReachedService(r) ==
  pc[r] # "idle" /\ validateAnalysisRequest(body[r]).isValid
\* the error initializeOpenAIClient throws when the key is not set
NoKeyError == ApiError(500, "OpenRouter API key not configured", <<>>)

\* C21: when the credential is absent at the time the client is first
\* needed, the run fails at once with the configuration error: no external
\* call is issued, initializeOpenAIClient is not called again for the
\* request, the client handle stays unset, and the error is answered as it
\* was thrown.
C21_MissingCredential ==
  \A r \in Requests :
    (ReachedService(r) /\ apiKey = "") =>
      /\ pc[r] \in {"settled", "responded"}
      /\ extCalls[r] = 0 /\ reply[r] = <<>>
      /\ initCalls[r] = 1
      /\ openaiClient = NoClient /\ handle[r] = NoClient /\ constructed = 0
      /\ svcResult[r] = Thrown(NoKeyError)
      /\ raised[r] = <<NoKeyError>>
      /\ Responded(r) =>
           /\ thrown[r] = NoKeyError
           /\ response[r] = ApiResponse(500, <<>>,
                               "OpenRouter API key not configured", <<>>)

\* C21 witness: without a key, one accepted request has been answered with
\* the configuration error and another has just failed the same way
C21_Witness ==
  \E r1 \in Requests, r2 \in Requests :
    /\ apiKey = ""
    /\ ReachedService(r1) /\ Responded(r1) /\ response[r1].statusCode = 500
    /\ ReachedService(r2) /\ pc[r2] = "settled"

\* the call resolved with choices whose first one has no content: there is
\* no first choice, or its content is missing, null or the empty string
NoContent(r) ==
  /\ reply[r] # <<>> /\ Settlement(r).kind = "resolved"
  /\ Settlement(r).hasChoices
  /\ ~HasReplyText(r)

\* C22: when the external call succeeds and the first choice has no content
\* (missing, null or empty string), the run fails with the 500 'No response
\* received from analysis service' error, which is not the invalid-JSON
\* error, and parseAnalysisResponse is not called.
C22_NoContent ==
  \A r \in Requests :
    NoContent(r) =>
      /\ parseCalls[r] = 0
      /\ ~svcResult[r].ok
      /\ svcResult[r].error =
           ApiError(500, "No response received from analysis service", <<>>)
      /\ svcResult[r].error.message # MsgInvalidJson
      /\ Responded(r) =>
           /\ response[r].statusCode = 500
           /\ response[r].message = "No response received from analysis service"

\* C22 witness: a run whose reply had a null content has been answered,
\* while another run's reply was handed to the parser
C22_Witness ==
  \E r1 \in Requests, r2 \in Requests :
    /\ NoContent(r1) /\ Responded(r1)
    /\ Len(Settlement(r1).choices) = 1
    /\ Settlement(r1).choices[1].t = "null"
    /\ parseCalls[r2] = 1

(***************************************************************************)
(* Properties of signup and login (AuthSpec).                              *)
(***************************************************************************)
\* request a is a signup that got past validateSignupData
ValidSignup(a) ==
  /\ authKind[a] = "signup" /\ authPc[a] # "idle"
  /\ validateSignupData(authBody[a]).isValid
AuthResponded(a) == authPc[a] = "responded"
\* the email of the request after trimming and lower-casing
EmailKey(a) == Stripped(ToLowerCase(authBody[a].email.chars))
\* the signup completed with 201 and its user is in the store
Won(a) ==
  /\ AuthResponded(a)
  /\ authResponse[a].statusCode = 201 /\ authResponse[a].success
  /\ cookie[a] # NoToken
  /\ \E i \in 1..Len(users) :
       /\ users[i].email = EmailKey(a)
       /\ authResponse[a].data[1].user.id = users[i].id
\* the signup ended with the duplicate-email error
LostWith409(a) ==
  /\ AuthResponded(a)
  /\ authResponse[a] =
       ApiResponse(409, <<>>, "User with this email already exists", <<>>)
  /\ cookie[a] = NoToken
\* the store never holds two users with the same email
NoDuplicateEmails ==
  \A i \in 1..Len(users), j \in 1..Len(users) :
    users[i].email = users[j].email => i = j
\* at most one of the signups with one email completes with 201
AtMostOneWinner ==
  \A a1 \in Requests, a2 \in Requests :
    (ValidSignup(a1) /\ ValidSignup(a2) /\ a1 # a2
       /\ EmailKey(a1) = EmailKey(a2)) => ~(Won(a1) /\ Won(a2))
\* the request's user passes the validators of the schema
PassesSchema(a) ==
  /\ Len(Stripped(authBody[a].firstName.chars)) <= NAME_MAX_LENGTH
  /\ Len(Stripped(authBody[a].lastName.chars)) <= NAME_MAX_LENGTH

\* C23 as stated: however concurrent signups with one email (after trimming
\* and lower-casing) interleave, at most one completes with 201 and a
\* stored user, every other signup that got past validateSignupData ends
\* with 409 'User with this email already exists', and the store never
\* holds two users with the same email.
C23_SignupRace ==
  /\ NoDuplicateEmails
  /\ AtMostOneWinner
  /\ \A a \in Requests :
       (ValidSignup(a) /\ AuthResponded(a)) => (Won(a) \/ LostWith409(a))

\* C23 as the code has it: the same, for signups whose names also pass the
\* schema's length validators; a signup whose first or last name is longer
\* than 50 characters gets past validateSignupData, ends with 409 when
\* findOne finds the email, and is otherwise answered 400 'Validation
\* failed' by save, storing nothing.
C23_SignupRaceSchemaValid ==
  /\ NoDuplicateEmails
  /\ AtMostOneWinner
  /\ \A a \in Requests :
       (ValidSignup(a) /\ AuthResponded(a)) =>
         IF PassesSchema(a) THEN Won(a) \/ LostWith409(a)
         ELSE IF lookup[a] # 0 THEN LostWith409(a)
         ELSE /\ authResponse[a].statusCode = 400
              /\ authResponse[a].message = "Validation failed"
              /\ cookie[a] = NoToken

\* C23 witness: two signups whose emails differ in case and white space
\* both found no user, one completed with 201 and the other lost at the
\* unique index with 409
C23_Witness ==
  \E a1 \in Requests, a2 \in Requests :
    /\ ValidSignup(a1) /\ ValidSignup(a2)
    /\ authBody[a1].email # authBody[a2].email
    /\ EmailKey(a1) = EmailKey(a2)
    /\ lookup[a1] = 0 /\ lookup[a2] = 0
    /\ Won(a1) /\ LostWith409(a2)

\* request a is a login with a non-empty string email and a password
LoginAttempt(a) ==
  /\ authKind[a] = "login" /\ authPc[a] # "idle"
  /\ authBody[a].email.t = "str" /\ authBody[a].email.chars # <<>>
  /\ FTruthy(authBody[a].password)
\* findOne found no user for the login's email
UnknownEmail(a) == authPc[a] \in {"responded"} /\ lookup[a] = 0
\* findOne found the user and the password is not the user's
WrongPassword(a) ==
  /\ lookup[a] # 0
  /\ users[lookup[a]].password # [bcrypt |-> authBody[a].password.chars]
\* the password comparison has succeeded for the login
PasswordVerified(a) ==
  /\ lookup[a] # 0
  /\ authBody[a].password.t = "str"
  /\ users[lookup[a]].password = [bcrypt |-> authBody[a].password.chars]
LoginRefused(a) == LoginAttempt(a) /\ AuthResponded(a)
                     /\ (UnknownEmail(a) \/ WrongPassword(a))

\* C24: login does not tell whether an email is registered: a login for an
\* unknown email and a login for a known email with a wrong password get
\* the same response (401 'Invalid email or password') and no token
\* cookie; the cookie and the token are issued only once the password
\* comparison has succeeded.
C24_LoginUniform ==
  /\ \A a \in Requests :
       LoginRefused(a) =>
         /\ authResponse[a] =
              ApiResponse(401, <<>>, "Invalid email or password", <<>>)
         /\ cookie[a] = NoToken
  /\ \A a1 \in Requests, a2 \in Requests :
       (LoginRefused(a1) /\ LoginRefused(a2)) =>
         authResponse[a1] = authResponse[a2]
  /\ \A a \in Requests :
       (authKind[a] = "login"
          /\ (cookie[a] # NoToken \/ authResponse[a].data # <<>>)) =>
         /\ PasswordVerified(a)
         /\ AuthResponded(a) /\ authResponse[a].statusCode = 200
         /\ cookie[a] = authResponse[a].data[1].token

\* C24 witness: a login for an unknown email and a login for a registered
\* email with another password have both been refused
C24_Witness ==
  \E a1 \in Requests, a2 \in Requests :
    /\ LoginRefused(a1) /\ UnknownEmail(a1)
    /\ authBody[a1].password.t = "str"
    /\ LoginRefused(a2) /\ WrongPassword(a2)
    /\ authBody[a2].password.t = "str"

====
